---- MODULE Spec2Model ----
(***************************************************************************)
(* A model of genji's catalog (internal/database/catalog.go), of the       *)
(* resumable scan of UPDATE (sql/query/update.go) and of the index build.  *)
(*                                                                         *)
(* The specifications share the variables:                                 *)
(*   Spec        the catalog cache, the persisted catalog table and the    *)
(*               transaction that carries the rollback hooks;              *)
(*   SpecUpdate  UpdateStmt.Run over one table;                            *)
(*   SpecUpdateFair  the same run, which goes on while it can take a step; *)
(*   SpecIndex   Catalog.CreateIndex / ReIndex / buildIndex over one table;*)
(*   SpecReIndex the REINDEX statement over a catalog of three indexes;    *)
(*   SpecRange   IsInRange and Cost of the ranges of the stream package;   *)
(*   SpecScan    IterateIndex and IteratePK of the comparison operators    *)
(*               (sql/query/expr/comparison.go);                           *)
(*   SpecValue   the values (document/value.go, document/cast.go): their   *)
(*               arithmetic, comparison, casts, truthiness and key         *)
(*               encoding, the aggregators and selectConfig.ToStream;      *)
(*   SpecConc    goroutines that share one catalog and its lock.           *)
(***************************************************************************)
EXTENDS Integers, Sequences, FiniteSets, TLC

VARIABLES
    cache,        \* catalogCache: tables, indexes, indexesPerTables, sequences
    persisted,    \* rows of the __genji_catalog store: name -> type
    txState,      \* "None", "Open", "Committing", "Rolling_back", "Closed"
    hooks,        \* Transaction.OnRollbackHooks
    hookPos,      \* rollback: index of the next hook to run
    hookLog,      \* history: the hooks the rollback ran, by their order of registration
    registered,   \* history: number of hooks appended since Begin
    pre,          \* history: Snapshot of the cache at Begin
    enginePre,    \* the engine's view of persisted at Begin (undone on rollback)
    ended,        \* how the last transaction ended: "", "commit", "rollback"
    last,         \* history: the last catalog call and its result
    nops,         \* number of catalog calls made so far
    upd,          \* state of UpdateStmt.Run
    ix,           \* state of the index build
    qry           \* state of a range test, of a scan of a comparison operator,
                  \* of a run of an operation on values, or of the lock of the
                  \* cache and the goroutines that take it

catVars == <<cache, persisted, txState, hooks, hookPos, hookLog, registered,
             pre, enginePre, ended, last, nops>>
vars == <<cache, persisted, txState, hooks, hookPos, hookLog, registered,
          pre, enginePre, ended, last, nops, upd, ix, qry>>

----------------------------------------------------------------------------
(* Bounds *)

\* catalog calls per behaviour
MaxOps == 3

\* rows of the table an UPDATE runs on
MaxRows == 101

----------------------------------------------------------------------------
(* Names, types and paths *)

CatalogTableName == "__genji_catalog"
SequenceTableName == "__genji_sequence"

\* names a caller passes for tables, indexes and sequences alike
Names == {"t", "u", "i"}
TableArgs == Names \cup {CatalogTableName}

AnyType == 0
IntegerValue == 144
TextValue == 192
BlobValue == 208

Paths == {"x", "y"}

\* go maps
EmptyMap == [k \in {} |-> k]
MapPut(m, k, v) == [x \in (DOMAIN m) \cup {k} |-> IF x = k THEN v ELSE m[x]]
MapDel(m, k) == [x \in (DOMAIN m) \ {k} |-> m[x]]
\* m[k] of a map of slices: nil when the key is absent
MapList(m, k) == IF k \in DOMAIN m THEN m[k] ELSE <<>>

Range(s) == {s[j] : j \in 1..Len(s)}

\* all the orders in which a range over a go map may visit the set S
Orders(S) ==
    {s \in [1..Cardinality(S) -> S] : \A a \in S : \E j \in 1..Cardinality(S) : s[j] = a}

FieldConstraint(path, type) == [Path |-> path, Type |-> type]

TableInfo(name, readOnly, fcs) ==
    [TableName |-> name, ReadOnly |-> readOnly, FieldConstraints |-> fcs]

IndexInfo(name, table, paths, types, constraint) ==
    [IndexName |-> name, TableName |-> table, Paths |-> paths, Types |-> types,
     ConstraintPath |-> constraint]

NoTable == TableInfo("", FALSE, <<>>)

\* TableInfo.Clone / IndexInfo.Clone: a copy with the same fields
CloneTable(ti) == ti
CloneIndex(idx) == idx

----------------------------------------------------------------------------
(* Rollback hooks: the closures appended to tx.OnRollbackHooks, with the   *)
(* values they capture.                                                    *)

Hook(kind, name, name2, ti, info, idxs) ==
    [kind |-> kind, name |-> name, name2 |-> name2, ti |-> ti, info |-> info, idxs |-> idxs]

\* a registration that puts the new hook in front of the list
appendHooksFront(hs, new) == new \o hs

\* tx.OnRollbackHooks = append(tx.OnRollbackHooks, func() {...})
appendHooks(hs, new) == hs \o new

\* the result of a call on the cache: the new cache, the error ("" for nil),
\* the hooks it appended, and what it returns
Res(c, err, hs, ti, idxs) == [c |-> c, err |-> err, hooks |-> hs, ti |-> ti, idxs |-> idxs]
Fail(c, err) == Res(c, err, <<>>, NoTable, <<>>)

----------------------------------------------------------------------------
(* catalogCache *)

newCatalogCache ==
    [tables |-> EmptyMap, indexes |-> EmptyMap, indexesPerTables |-> EmptyMap,
     sequences |-> EmptyMap]

RECURSIVE loadIndexes(_, _)
loadIndexes(c, idxs) ==
    IF idxs = <<>> THEN c
    ELSE LET idx == Head(idxs) IN
         loadIndexes(
             [c EXCEPT !.indexes = MapPut(@, idx.IndexName, idx),
                       !.indexesPerTables =
                           MapPut(@, idx.TableName, Append(MapList(@, idx.TableName), idx))],
             Tail(idxs))

load(c, tbls, idxs, seqs) ==
    LET withTables ==
            [c EXCEPT !.tables =
                [n \in (DOMAIN c.tables) \cup {ti.TableName : ti \in tbls} |->
                    IF \E ti \in tbls : ti.TableName = n
                    THEN CHOOSE ti \in tbls : ti.TableName = n
                    ELSE c.tables[n]]]
        withIndexes == loadIndexes(withTables, idxs)
    IN [withIndexes EXCEPT !.sequences = [n \in seqs |-> n]]

AddTable(c, info) ==
    IF info.TableName \in DOMAIN c.tables THEN Fail(c, "AlreadyExists")
    ELSE IF info.TableName \in DOMAIN c.indexes THEN Fail(c, "AlreadyExists")
    ELSE IF info.TableName \in DOMAIN c.sequences THEN Fail(c, "AlreadyExists")
    ELSE Res([c EXCEPT !.tables = MapPut(@, info.TableName, info)], "",
             <<Hook("AddTable", info.TableName, "", NoTable, <<>>, <<>>)>>,
             info, <<>>)

\* the indexes DeleteTable collects by ranging over c.indexes
IndexesOfTable(c, tableName) ==
    {c.indexes[n] : n \in {m \in DOMAIN c.indexes : c.indexes[m].TableName = tableName}}

\* removedIndexes is IndexesOfTable in the order the map range visited them
DeleteTable(c, tableName, removedIndexes) ==
    IF tableName \notin DOMAIN c.tables THEN Fail(c, "TableNotFound")
    ELSE LET ti == c.tables[tableName] IN
         IF ti.ReadOnly THEN Fail(c, "ReadOnly")
         ELSE Res([c EXCEPT !.tables = MapDel(@, tableName),
                            !.indexesPerTables = MapDel(@, tableName)],
                  "",
                  <<Hook("DeleteTable", tableName, "", ti, <<>>, removedIndexes)>>,
                  ti, removedIndexes)

GetTable(c, tableName) ==
    IF tableName \in DOMAIN c.tables
    THEN Res(c, "", <<>>, c.tables[tableName], <<>>)
    ELSE Fail(c, "TableNotFound")

\* the first constraint of fcs on path, as the inner loop of AddIndex finds it
RECURSIVE FirstConstraint(_, _)
FirstConstraint(fcs, path) ==
    IF fcs = <<>> THEN <<>>
    ELSE IF Head(fcs).Path = path THEN <<Head(fcs)>>
    ELSE FirstConstraint(Tail(fcs), path)

\* the OUTER loop of AddIndex: info.Types from the table's constraints
RECURSIVE indexTypes(_, _)
indexTypes(paths, fcs) ==
    IF paths = <<>> THEN <<>>
    ELSE LET fc == FirstConstraint(fcs, Head(paths)) IN
         (IF fc = <<>> THEN <<AnyType>>
          ELSE IF fc[1].Type # 0 THEN <<fc[1].Type>>
          ELSE <<>>)
         \o indexTypes(Tail(paths), fcs)

\* AddIndex without the check of the tables for the name of the index
AddIndexNoTableCheck(c, info) ==
    IF info.IndexName \in DOMAIN c.indexes THEN Fail(c, "AlreadyExists")
    ELSE IF info.IndexName \in DOMAIN c.sequences THEN Fail(c, "AlreadyExists")
    ELSE IF info.TableName \notin DOMAIN c.tables THEN Fail(c, "TableNotFound")
    ELSE LET ti == c.tables[info.TableName]
             typed == [info EXCEPT !.Types = indexTypes(info.Paths, ti.FieldConstraints)]
             previousIndexes == MapList(c.indexesPerTables, info.TableName)
         IN Res([c EXCEPT !.indexes = MapPut(@, typed.IndexName, typed),
                          !.indexesPerTables =
                              MapPut(@, typed.TableName, Append(previousIndexes, typed))],
                "",
                <<Hook("AddIndex", typed.IndexName, typed.TableName, NoTable, <<>>,
                       previousIndexes)>>,
                NoTable, <<typed>>)

\* info.IndexName is never empty here: the callers of the model always name the index
AddIndex(c, info) ==
    IF info.IndexName \in DOMAIN c.indexes THEN Fail(c, "AlreadyExists")
    ELSE IF info.IndexName \in DOMAIN c.tables THEN Fail(c, "AlreadyExists")
    ELSE IF info.IndexName \in DOMAIN c.sequences THEN Fail(c, "AlreadyExists")
    ELSE IF info.TableName \notin DOMAIN c.tables THEN Fail(c, "TableNotFound")
    ELSE LET ti == c.tables[info.TableName]
             typed == [info EXCEPT !.Types = indexTypes(info.Paths, ti.FieldConstraints)]
             previousIndexes == MapList(c.indexesPerTables, info.TableName)
         IN Res([c EXCEPT !.indexes = MapPut(@, typed.IndexName, typed),
                          !.indexesPerTables =
                              MapPut(@, typed.TableName, Append(previousIndexes, typed))],
                "",
                <<Hook("AddIndex", typed.IndexName, typed.TableName, NoTable, <<>>,
                       previousIndexes)>>,
                NoTable, <<typed>>)

\* DeleteIndex without the check of info.ConstraintPath
DeleteIndexNoConstraintCheck(c, indexName) ==
    IF indexName \notin DOMAIN c.indexes THEN Fail(c, "IndexNotFound")
    ELSE LET info == c.indexes[indexName]
             oldIndexList == MapList(c.indexesPerTables, info.TableName)
             newIndexlist == SelectSeq(oldIndexList, LAMBDA idx : idx.IndexName # indexName)
         IN Res([c EXCEPT !.indexes = MapDel(@, indexName),
                          !.indexesPerTables = MapPut(@, info.TableName, newIndexlist)],
                "",
                <<Hook("DeleteIndex", indexName, info.TableName, NoTable, <<info>>,
                       oldIndexList)>>,
                NoTable, <<info>>)

DeleteIndex(c, indexName) ==
    IF indexName \notin DOMAIN c.indexes THEN Fail(c, "IndexNotFound")
    ELSE LET info == c.indexes[indexName] IN
         IF info.ConstraintPath THEN Fail(c, "ConstraintIndex")
         ELSE LET oldIndexList == MapList(c.indexesPerTables, info.TableName)
                  newIndexlist == SelectSeq(oldIndexList, LAMBDA idx : idx.IndexName # indexName)
              IN Res([c EXCEPT !.indexes = MapDel(@, indexName),
                               !.indexesPerTables = MapPut(@, info.TableName, newIndexlist)],
                     "",
                     <<Hook("DeleteIndex", indexName, info.TableName, NoTable, <<info>>,
                            oldIndexList)>>,
                     NoTable, <<info>>)

GetIndex(c, indexName) ==
    IF indexName \in DOMAIN c.indexes
    THEN Res(c, "", <<>>, NoTable, <<c.indexes[indexName]>>)
    ELSE Fail(c, "IndexNotFound")

ListIndexes(c) == DOMAIN c.indexes

GetTableIndexes(c, tableName) == MapList(c.indexesPerTables, tableName)

\* the loop of updateTable over c.indexesPerTables[tableName] on a rename
RECURSIVE repoint(_, _, _)
repoint(idxMap, oldIndexes, newName) ==
    IF oldIndexes = <<>> THEN idxMap
    ELSE LET idxClone == [CloneIndex(Head(oldIndexes)) EXCEPT !.TableName = newName] IN
         repoint(MapPut(idxMap, idxClone.IndexName, idxClone), Tail(oldIndexes), newName)

\* FieldConstraints.Add (field_constraint.go) follows the specification: it refuses a second
\* constraint on a path
FieldConstraintsAdd(fcs, fc) ==
    IF \E j \in 1..Len(fcs) : fcs[j].Path = fc.Path
    THEN [err |-> "ConstraintExists", fcs |-> fcs]
    ELSE [err |-> "", fcs |-> Append(fcs, fc)]

\* the closures Catalog.AddFieldConstraint and Catalog.RenameTable pass to
\* updateTable, run on the clone: the error they return and the clone as they
\* leave it
applyFn(fn, clone) ==
    IF fn.kind = "AddFieldConstraint"
    THEN LET a == FieldConstraintsAdd(clone.FieldConstraints, fn.fc) IN
         [err |-> a.err, clone |-> [clone EXCEPT !.FieldConstraints = a.fcs]]
    ELSE [err |-> "", clone |-> [clone EXCEPT !.TableName = fn.newName]]

updateTable(c, tableName, fn) ==
    IF tableName \notin DOMAIN c.tables THEN Fail(c, "TableNotFound")
    ELSE LET ti == c.tables[tableName] IN
         IF ti.ReadOnly THEN Fail(c, "ReadOnly")
         ELSE LET r == applyFn(fn, CloneTable(ti)) IN
              IF r.err # "" THEN Fail(c, r.err)
              ELSE LET clone == r.clone
                       renamed == clone.TableName # tableName
                       oldIndexes == IF renamed THEN MapList(c.indexesPerTables, tableName)
                                     ELSE <<>>
                       newIndexes == [j \in 1..Len(oldIndexes) |->
                                         [CloneIndex(oldIndexes[j]) EXCEPT
                                             !.TableName = clone.TableName]]
                       c1 == IF renamed
                             THEN [c EXCEPT !.tables = MapDel(@, tableName),
                                            !.indexes = repoint(@, oldIndexes, clone.TableName)]
                             ELSE c
                       c2 == IF Len(newIndexes) > 0
                             THEN [c1 EXCEPT !.indexesPerTables =
                                      MapDel(MapPut(@, clone.TableName, newIndexes), tableName)]
                             ELSE c1
                       c3 == [c2 EXCEPT !.tables = MapPut(@, clone.TableName, clone)]
                   IN Res(c3, "",
                          <<Hook("updateTable", tableName, clone.TableName, ti, <<>>,
                                 oldIndexes)>>,
                          clone, newIndexes)

AddSequence(c, name) ==
    IF name \in DOMAIN c.sequences THEN Fail(c, "AlreadyExists")
    ELSE IF name \in DOMAIN c.tables THEN Fail(c, "AlreadyExists")
    ELSE IF name \in DOMAIN c.indexes THEN Fail(c, "AlreadyExists")
    ELSE Res([c EXCEPT !.sequences = MapPut(@, name, name)], "",
             <<Hook("AddSequence", name, "", NoTable, <<>>, <<>>)>>, NoTable, <<>>)

GetSequence(c, name) ==
    IF name \in DOMAIN c.sequences THEN "" ELSE "SequenceNotFound"

\* DeleteSequence that registers no rollback hook
DeleteSequenceNoHook(c, name) ==
    IF name \notin DOMAIN c.sequences THEN Fail(c, "SequenceNotFound")
    ELSE Res([c EXCEPT !.sequences = MapDel(@, name)], "", <<>>, NoTable, <<>>)

DeleteSequence(c, name) ==
    IF name \notin DOMAIN c.sequences THEN Fail(c, "SequenceNotFound")
    ELSE Res([c EXCEPT !.sequences = MapDel(@, name)], "",
             <<Hook("DeleteSequence", name, "", NoTable, <<>>, <<>>)>>, NoTable, <<>>)

----------------------------------------------------------------------------
(* The closures: what each rollback hook does to the cache when it runs *)

RECURSIVE putIndexes(_, _)
putIndexes(idxMap, idxs) ==
    IF idxs = <<>> THEN idxMap
    ELSE putIndexes(MapPut(idxMap, Head(idxs).IndexName, Head(idxs)), Tail(idxs))

runHook(c, h) ==
    CASE h.kind = "AddTable" ->
            [c EXCEPT !.tables = MapDel(@, h.name)]
      [] h.kind = "DeleteTable" ->
            [c EXCEPT !.tables = MapPut(@, h.name, h.ti),
                      !.indexes = putIndexes(@, h.idxs),
                      !.indexesPerTables =
                          IF Len(h.idxs) > 0 THEN MapPut(@, h.name, h.idxs) ELSE @]
      [] h.kind = "AddIndex" ->
            [c EXCEPT !.indexes = MapDel(@, h.name),
                      !.indexesPerTables =
                          IF Len(h.idxs) = 0 THEN MapDel(@, h.name2)
                          ELSE MapPut(@, h.name2, h.idxs)]
      [] h.kind = "DeleteIndex" ->
            [c EXCEPT !.indexes = MapPut(@, h.name, h.info[1]),
                      !.indexesPerTables = MapPut(@, h.name2, h.idxs)]
      [] h.kind = "updateTable" ->
            [c EXCEPT !.tables = MapPut(MapDel(@, h.name2), h.name, h.ti),
                      !.indexes = putIndexes(@, h.idxs),
                      !.indexesPerTables =
                          IF h.name2 # h.name
                          THEN MapPut(MapDel(@, h.name2), h.name, h.idxs)
                          ELSE @]
      [] h.kind = "AddSequence" ->
            [c EXCEPT !.sequences = MapDel(@, h.name)]
      [] h.kind = "DeleteSequence" ->
            [c EXCEPT !.sequences = MapPut(@, h.name, h.name)]

----------------------------------------------------------------------------
(* CatalogTable: the rows of the __genji_catalog store, keyed by name.     *)
(* Table.Insert, Replace and Delete (table.go) follow the specification:   *)
(* Insert refuses an existing key (DuplicateDocument), Replace and Delete  *)
(* a missing one (KeyNotFound).                                            *)

PRes(p, err) == [p |-> p, err |-> err]

tableInsert(p, name, type) ==
    IF name \in DOMAIN p THEN PRes(p, "DuplicateDocument") ELSE PRes(MapPut(p, name, type), "")

tableReplace(p, name, type) ==
    IF name \in DOMAIN p THEN PRes(MapPut(p, name, type), "") ELSE PRes(p, "KeyNotFound")

tableDelete(p, name) ==
    IF name \in DOMAIN p THEN PRes(MapDel(p, name), "") ELSE PRes(p, "KeyNotFound")

insertTable(p, tableName) ==
    LET r == tableInsert(p, tableName, "table") IN
    IF r.err = "DuplicateDocument" THEN PRes(p, "AlreadyExists") ELSE r

replaceTable(p, tableName) == tableReplace(p, tableName, "table")

deleteTable(p, tableName) == tableDelete(p, tableName)

insertIndex(p, indexName) ==
    LET r == tableInsert(p, indexName, "index") IN
    IF r.err = "DuplicateDocument" THEN PRes(p, "AlreadyExists") ELSE r

replaceIndex(p, indexName) == tableReplace(p, indexName, "index")

deleteIndex(p, indexName) == tableDelete(p, indexName)

insertSequence(p, name) ==
    LET r == tableInsert(p, name, "sequence") IN
    IF r.err = "DuplicateDocument" THEN PRes(p, "AlreadyExists") ELSE r

deleteSequence(p, name) == tableDelete(p, name)

----------------------------------------------------------------------------
(* Catalog: each method as a function of the cache c and the persisted     *)
(* rows p. Stores are created, dropped and truncated without error, and    *)
(* the tables of this specification hold no rows, so that the build of a   *)
(* new index has nothing to scan (SpecIndex models the build).             *)

CRes(c, p, err, hs) == [c |-> c, p |-> p, err |-> err, hooks |-> hs]

CatalogCreateTable(c, p, tableName, fcs) ==
    LET info == TableInfo(tableName, FALSE, fcs)
        ins == insertTable(p, tableName)
    IN IF ins.err # "" THEN CRes(c, p, ins.err, <<>>)
       ELSE LET r == AddTable(c, info) IN CRes(r.c, ins.p, r.err, r.hooks)

\* Catalog.dropIndex over removedIndexes, stopping at the first error
RECURSIVE dropIndexes(_, _)
dropIndexes(p, idxs) ==
    IF idxs = <<>> THEN PRes(p, "")
    ELSE LET d == deleteIndex(p, Head(idxs).IndexName) IN
         IF d.err # "" THEN d ELSE dropIndexes(d.p, Tail(idxs))

CatalogDropTable(c, p, tableName, removedIndexes) ==
    LET r == DeleteTable(c, tableName, removedIndexes) IN
    IF r.err # "" THEN CRes(c, p, r.err, <<>>)
    ELSE LET d == dropIndexes(p, r.idxs) IN
         IF d.err # "" THEN CRes(r.c, d.p, d.err, r.hooks)
         ELSE LET e == deleteTable(d.p, tableName) IN CRes(r.c, e.p, e.err, r.hooks)

CatalogCreateIndex(c, p, info) ==
    LET r == AddIndex(c, info) IN
    IF r.err # "" THEN CRes(c, p, r.err, <<>>)
    ELSE LET ins == insertIndex(p, info.IndexName) IN
         IF ins.err # "" THEN CRes(r.c, p, ins.err, r.hooks)
         ELSE LET gi == GetIndex(r.c, info.IndexName) IN
              IF gi.err # "" THEN CRes(r.c, ins.p, gi.err, r.hooks)
              ELSE LET gt == GetTable(r.c, info.TableName) IN
                   CRes(r.c, ins.p, gt.err, r.hooks)

CatalogDropIndex(c, p, name) ==
    LET r == DeleteIndex(c, name) IN
    IF r.err # "" THEN CRes(c, p, r.err, <<>>)
    ELSE LET d == deleteIndex(p, name) IN CRes(r.c, d.p, d.err, r.hooks)

CatalogAddFieldConstraint(c, p, tableName, fc) ==
    LET fn == [kind |-> "AddFieldConstraint", fc |-> fc]
        r == updateTable(c, tableName, fn)
    IN IF r.err # "" THEN CRes(c, p, r.err, <<>>)
       ELSE LET e == replaceTable(p, tableName) IN CRes(r.c, e.p, e.err, r.hooks)

\* the loop of RenameTable over newIdxs, stopping at the first error
RECURSIVE replaceIndexes(_, _)
replaceIndexes(p, idxs) ==
    IF idxs = <<>> THEN PRes(p, "")
    ELSE LET d == replaceIndex(p, Head(idxs).IndexName) IN
         IF d.err # "" THEN d ELSE replaceIndexes(d.p, Tail(idxs))

CatalogRenameTable(c, p, oldName, newName) ==
    LET fn == [kind |-> "RenameTable", newName |-> newName]
        r == updateTable(c, oldName, fn)
    IN IF r.err # "" THEN CRes(c, p, r.err, <<>>)
       ELSE LET ins == insertTable(p, newName) IN
            IF ins.err # "" THEN CRes(r.c, p, ins.err, r.hooks)
            ELSE LET rep == replaceIndexes(ins.p, r.idxs) IN
                 IF rep.err # "" THEN CRes(r.c, rep.p, rep.err, r.hooks)
                 ELSE LET e == deleteTable(rep.p, oldName) IN
                      CRes(r.c, e.p, e.err, r.hooks)

CatalogCreateSequence(c, p, name) ==
    LET ins == insertSequence(p, name) IN
    IF ins.err # "" THEN CRes(c, p, ins.err, <<>>)
    ELSE LET r == AddSequence(c, name) IN CRes(r.c, ins.p, r.err, r.hooks)

CatalogDropSequence(c, p, name) ==
    LET r == DeleteSequence(c, name) IN
    IF r.err # "" THEN CRes(c, p, r.err, <<>>)
    ELSE LET d == deleteSequence(p, name) IN CRes(r.c, d.p, d.err, r.hooks)

\* Catalog.ListIndexes: the names, which the code sorts
CatalogListIndexes(c, tableName) ==
    IF tableName = "" THEN ListIndexes(c)
    ELSE {idx.IndexName : idx \in Range(GetTableIndexes(c, tableName))}

(* What a reader of the cache can tell: the four maps, a per-table list    *)
(* being read as the set of its entries and an empty list as no list.      *)
Snapshot(c) ==
    [tables |-> c.tables,
     indexes |-> c.indexes,
     sequences |-> DOMAIN c.sequences,
     indexesPerTables |->
        [n \in {m \in DOMAIN c.indexesPerTables : c.indexesPerTables[m] # <<>>} |->
            Range(c.indexesPerTables[n])]]

----------------------------------------------------------------------------
(* The catalog as Load leaves it *)

\* NewCatalogTable: the info of the __genji_catalog table
CatalogTableInfo ==
    TableInfo(CatalogTableName, FALSE,
              <<FieldConstraint("name", TextValue), FieldConstraint("type", TextValue),
                FieldConstraint("table_name", TextValue), FieldConstraint("sql", TextValue),
                FieldConstraint("store_name", BlobValue)>>)

\* the info of the __genji_sequence table, which Load registers as it is
SequenceTableInfo == TableInfo(SequenceTableName, FALSE, <<>>)

\* Load without ti.ReadOnly = true
LoadWritable(tbls, idxs, seqs) ==
    load(newCatalogCache, tbls \cup {CloneTable(CatalogTableInfo), SequenceTableInfo}, idxs, seqs)

Load(tbls, idxs, seqs) ==
    LET ti == [CloneTable(CatalogTableInfo) EXCEPT !.ReadOnly = TRUE] IN
    load(newCatalogCache, tbls \cup {ti, SequenceTableInfo}, idxs, seqs)

\* a NOT NULL constraint declares no type
UntypedX == <<FieldConstraint("x", AnyType)>>
TypedX == <<FieldConstraint("x", IntegerValue)>>

\* the catalogs a database is opened on: what earlier committed statements left
Stored ==
    { [tables |-> {}, indexes |-> <<>>, sequences |-> {}],
      [tables |-> {TableInfo("t", FALSE, UntypedX)},
       indexes |-> <<IndexInfo("i", "t", <<"x">>, indexTypes(<<"x">>, UntypedX), FALSE)>>,
       sequences |-> {}],
      [tables |-> {TableInfo("t", FALSE, <<>>), TableInfo("u", FALSE, TypedX)},
       indexes |-> <<>>,
       sequences |-> {}],
      [tables |-> {TableInfo("t", FALSE, TypedX)},
       indexes |-> <<IndexInfo("u", "t", <<"x">>, indexTypes(<<"x">>, TypedX), TRUE)>>,
       sequences |-> {"i"}] }

StoredRows(st) ==
    [n \in {ti.TableName : ti \in st.tables}
           \cup {st.indexes[j].IndexName : j \in 1..Len(st.indexes)}
           \cup st.sequences |->
        IF n \in st.sequences THEN "sequence"
        ELSE IF \E ti \in st.tables : ti.TableName = n THEN "table"
        ELSE "index"]

NoCall == [op |-> "", a |-> "", b |-> "", err |-> ""]

UpdIdle == [pc |-> "idle"]
IxIdle == [pc |-> "idle"]
QryIdle == [pc |-> "idle"]

Init ==
    /\ \E st \in Stored :
          /\ cache = Load(st.tables, st.indexes, st.sequences)
          /\ persisted = StoredRows(st)
          /\ enginePre = StoredRows(st)
          /\ pre = Snapshot(Load(st.tables, st.indexes, st.sequences))
    /\ txState = "None"
    /\ hooks = <<>>
    /\ hookPos = 0
    /\ hookLog = <<>>
    /\ registered = 0
    /\ ended = ""
    /\ last = NoCall
    /\ nops = 0
    /\ upd = UpdIdle
    /\ ix = IxIdle
    /\ qry = QryIdle

----------------------------------------------------------------------------
(* Transaction. A behaviour follows one write transaction, from Begin to  *)
(* Closed, on a catalog that earlier transactions left. The code of the    *)
(* transaction is in transaction.go; its states and the                    *)
(* order in which it runs the hooks are those its specification gives:     *)
(* Open, then Committing or Rolling_back, then Closed.                     *)

Begin ==
    /\ txState = "None"
    /\ txState' = "Open"
    /\ hooks' = <<>>
    /\ hookPos' = 0
    /\ hookLog' = <<>>
    /\ registered' = 0
    /\ pre' = Snapshot(cache)
    /\ enginePre' = persisted
    /\ ended' = ""
    /\ last' = NoCall
    /\ UNCHANGED <<cache, persisted, nops, upd, ix, qry>>

\* a statement that ends with an error ends its transaction with a rollback
Commit ==
    /\ txState = "Open"
    /\ last.err = ""
    /\ txState' = "Committing"
    /\ UNCHANGED <<cache, persisted, hooks, hookPos, hookLog, registered, pre, enginePre,
                   ended, last, nops, upd, ix, qry>>

\* the engine has committed: the hooks are dropped
Committed ==
    /\ txState = "Committing"
    /\ txState' = "Closed"
    /\ hooks' = <<>>
    /\ ended' = "commit"
    /\ UNCHANGED <<cache, persisted, hookPos, hookLog, registered, pre, enginePre,
                   last, nops, upd, ix, qry>>

\* the engine undoes the writes to the store of the catalog table
Rollback ==
    /\ txState = "Open"
    /\ txState' = "Rolling_back"
    /\ persisted' = enginePre
    /\ hookPos' = Len(hooks)
    /\ UNCHANGED <<cache, hooks, hookLog, registered, pre, enginePre, ended, last, nops,
                   upd, ix, qry>>

\* the hook the rollback runs next, given the position it has reached
NextHook(pos) == pos

RunHook ==
    /\ txState = "Rolling_back"
    /\ hookPos >= 1
    /\ cache' = runHook(cache, hooks[NextHook(hookPos)].hook)
    /\ hookLog' = Append(hookLog, hooks[NextHook(hookPos)].id)
    /\ hookPos' = hookPos - 1
    /\ UNCHANGED <<persisted, txState, hooks, registered, pre, enginePre, ended, last,
                   nops, upd, ix, qry>>

RolledBack ==
    /\ txState = "Rolling_back"
    /\ hookPos = 0
    /\ txState' = "Closed"
    /\ hooks' = <<>>
    /\ ended' = "rollback"
    /\ UNCHANGED <<cache, persisted, hookPos, hookLog, registered, pre, enginePre,
                   last, nops, upd, ix, qry>>

----------------------------------------------------------------------------
(* The calls of a transaction on the catalog. The statements that make    *)
(* them stop at the first error: a call that failed is followed by the     *)
(* rollback alone.                                                         *)

Call(op, a, b, r) ==
    /\ txState = "Open"
    /\ last.err = ""
    /\ nops < MaxOps
    /\ cache' = r.c
    /\ persisted' = r.p
    /\ hooks' = appendHooks(hooks, [j \in 1..Len(r.hooks) |->
                                        [id |-> registered + j, hook |-> r.hooks[j]]])
    /\ registered' = registered + Len(r.hooks)
    /\ last' = [op |-> op, a |-> a, b |-> b, err |-> r.err]
    /\ nops' = nops + 1
    /\ UNCHANGED <<txState, hookPos, hookLog, pre, enginePre, ended, upd, ix, qry>>

\* the constraints a CREATE TABLE declares
CreateArgs == {<<>>, UntypedX, TypedX}

CreateTable ==
    \E n \in Names, fcs \in CreateArgs :
        Call("CreateTable", n, "", CatalogCreateTable(cache, persisted, n, fcs))

DropTable ==
    \E n \in TableArgs :
        \E order \in Orders(IndexesOfTable(cache, n)) :
            Call("DropTable", n, "", CatalogDropTable(cache, persisted, n, order))

\* the paths and the types a caller puts in the IndexInfo
IndexPaths == {<<"x">>, <<"x", "y">>}
CallerTypes == {<<>>, <<TextValue>>}

CreateIndex ==
    \E n \in Names, tb \in Names, ps \in IndexPaths, ts \in CallerTypes :
        Call("CreateIndex", n, tb,
             CatalogCreateIndex(cache, persisted, IndexInfo(n, tb, ps, ts, FALSE)))

DropIndex ==
    \E n \in Names : Call("DropIndex", n, "", CatalogDropIndex(cache, persisted, n))

AddFieldConstraint ==
    \E n \in TableArgs, fc \in {FieldConstraint("x", IntegerValue), FieldConstraint("y", AnyType)} :
        Call("AddFieldConstraint", n, "", CatalogAddFieldConstraint(cache, persisted, n, fc))

RenameTable ==
    \E o \in TableArgs, n \in TableArgs :
        Call("RenameTable", o, n, CatalogRenameTable(cache, persisted, o, n))

CreateSequence ==
    \E n \in Names : Call("CreateSequence", n, "", CatalogCreateSequence(cache, persisted, n))

DropSequence ==
    \E n \in Names : Call("DropSequence", n, "", CatalogDropSequence(cache, persisted, n))

Next ==
    \/ Begin
    \/ Commit
    \/ Committed
    \/ Rollback
    \/ RunHook
    \/ RolledBack
    \/ CreateTable
    \/ DropTable
    \/ CreateIndex
    \/ DropIndex
    \/ AddFieldConstraint
    \/ RenameTable
    \/ CreateSequence
    \/ DropSequence

Spec == Init /\ [][Next]_vars

----------------------------------------------------------------------------
(* Properties of the catalog, checked under Spec *)

\* a step of Next that is a call on the catalog
IsCall == nops' = nops + 1

Used(c, n) == n \in DOMAIN c.tables \/ n \in DOMAIN c.indexes \/ n \in DOMAIN c.sequences

\* C1: once the rollback of a transaction has run its hooks, the cache (tables,
\* indexes, sequences and per-table index lists) is what it was when the
\* transaction began, whatever calls the transaction made, a failed one included.
RollbackRestoresCache ==
    (txState = "Closed" /\ ended = "rollback") => Snapshot(cache) = pre

\* C2: in every reachable state of the cache no name is used by two objects among
\* tables, indexes and sequences, after calls that succeeded and after calls that
\* returned an error alike.
UniqueNames ==
    \A n \in DOMAIN cache.tables \cup DOMAIN cache.indexes \cup DOMAIN cache.sequences :
        /\ ~(n \in DOMAIN cache.tables /\ n \in DOMAIN cache.indexes)
        /\ ~(n \in DOMAIN cache.tables /\ n \in DOMAIN cache.sequences)
        /\ ~(n \in DOMAIN cache.indexes /\ n \in DOMAIN cache.sequences)

\* C3: when DropTable(T) succeeds, every index whose table was T is gone: GetIndex
\* on its name answers index-not-found, ListIndexes lists it neither for T nor for
\* all the tables, and a later create_index may take its name.
DropTableCascades ==
    [][(IsCall /\ last'.op = "DropTable" /\ last'.err = "") =>
        \A n \in DOMAIN cache.indexes :
            cache.indexes[n].TableName = last'.a =>
                /\ GetIndex(cache', n).err = "IndexNotFound"
                /\ n \notin CatalogListIndexes(cache', "")
                /\ n \notin CatalogListIndexes(cache', last'.a)
                /\ \A tb \in DOMAIN cache'.tables :
                      AddIndex(cache', IndexInfo(n, tb, <<"x">>, <<>>, FALSE)).err = ""]_vars

\* the ids of the hooks n, n-1, ..., 1
RECURSIVE Countdown(_)
Countdown(n) == IF n = 0 THEN <<>> ELSE <<n>> \o Countdown(n - 1)

TxOrder ==
    \/ txState' = txState
    \/ txState = "None" /\ txState' = "Open"
    \/ txState = "Open" /\ txState' \in {"Committing", "Rolling_back"}
    \/ txState \in {"Committing", "Rolling_back"} /\ txState' = "Closed"

\* C7: a transaction goes Open, then Committing or Rolling_back, then Closed; an
\* abort runs every hook registered during the transaction exactly once, the last
\* registered first; a commit runs no hook and drops the list; no hook runs once
\* the transaction is Closed.
TransactionHooks ==
    /\ [][TxOrder]_vars
    /\ [](Len(hooks) <= registered)
    /\ []((txState = "Closed" /\ ended = "rollback") => hookLog = Countdown(registered))
    /\ []((txState = "Closed" /\ ended = "commit") => (hookLog = <<>> /\ hooks = <<>>))
    /\ []((txState \in {"Open", "Committing"}) => hookLog = <<>>)
    /\ [][txState = "Closed" => (hookLog' = hookLog /\ cache' = cache)]_vars

HooksRanInReverse ==
    txState = "Closed" /\ ended = "rollback" /\ registered >= 2 /\ Len(hookLog) = registered

\* C8: when RenameTable(old, new) succeeds, the table is found under new and not
\* under old, every index of old has table_name = new in the by-name map and in the
\* list of new, the list of old is empty, and the names of the indexes, of the
\* other tables and of the sequences are what they were.
RenameRewritesIndexes ==
    [][(IsCall /\ last'.op = "RenameTable" /\ last'.err = "") =>
        LET old == last'.a
            new == last'.b
        IN /\ GetTable(cache', new).err = ""
           /\ GetTable(cache', old).err = "TableNotFound"
           /\ \A n \in DOMAIN cache.indexes :
                 cache.indexes[n].TableName = old =>
                    /\ GetIndex(cache', n).err = ""
                    /\ cache'.indexes[n].TableName = new
                    /\ \E j \in 1..Len(GetTableIndexes(cache', new)) :
                          /\ GetTableIndexes(cache', new)[j].IndexName = n
                          /\ GetTableIndexes(cache', new)[j].TableName = new
           /\ GetTableIndexes(cache', old) = <<>>
           /\ DOMAIN cache'.indexes = DOMAIN cache.indexes
           /\ DOMAIN cache'.sequences = DOMAIN cache.sequences
           /\ (DOMAIN cache'.tables) \ {new} = (DOMAIN cache.tables) \ {old}]_vars

\* the type the constraints fcs declare on path, Any when they declare none
DeclaredType(fcs, path) ==
    IF \E j \in 1..Len(fcs) : fcs[j].Path = path /\ fcs[j].Type # AnyType
    THEN LET j == CHOOSE k \in 1..Len(fcs) : fcs[k].Path = path /\ fcs[k].Type # AnyType
         IN fcs[j].Type
    ELSE AnyType

\* C9: after create_index succeeds, info.types is as long as info.paths and
\* types[i] is the type the table's constraint on paths[i] declares, 0 (Any) when
\* no constraint on that path declares a type; the caller's types are overridden.
IndexTypesAligned ==
    (txState = "Open" /\ last.op = "CreateIndex" /\ last.err = "") =>
        LET info == cache.indexes[last.a]
            fcs == cache.tables[info.TableName].FieldConstraints
        IN /\ Len(info.Types) = Len(info.Paths)
           /\ \A j \in 1..Len(info.Paths) :
                 j <= Len(info.Types) /\ info.Types[j] = DeclaredType(fcs, info.Paths[j])

DropConstraintIndexRefused ==
    [][(IsCall /\ last'.op = "DropIndex"
               /\ last'.a \in DOMAIN cache.indexes
               /\ cache.indexes[last'.a].ConstraintPath) =>
        /\ last'.err # ""
        /\ cache'.indexes = cache.indexes
        /\ cache'.indexesPerTables = cache.indexesPerTables
        /\ hooks' = hooks
        /\ registered' = registered]_vars

DropOfConstraintIndexFailed ==
    /\ txState = "Open"
    /\ last.op = "DropIndex"
    /\ last.err = "ConstraintIndex"
    /\ last.a \in DOMAIN cache.indexes
    /\ cache.indexes[last.a].ConstraintPath

\* the __genji_catalog table as Catalog.Load registers it
LoadedCatalogTable == Load({}, <<>>, {}).tables[CatalogTableName]

\* C12: drop_table, rename_table and add_field_constraint on the __genji_catalog
\* table as Load registered it return an error, leave the cache as it was and
\* register no rollback hook.
ReadOnlyTableRefuses ==
    [][(IsCall /\ last'.op \in {"DropTable", "RenameTable", "AddFieldConstraint"}
               /\ last'.a = CatalogTableName
               /\ CatalogTableName \in DOMAIN cache.tables
               /\ cache.tables[CatalogTableName] = LoadedCatalogTable) =>
        /\ last'.err # ""
        /\ cache' = cache
        /\ hooks' = hooks
        /\ registered' = registered]_vars

RenameOfCatalogTableFailed ==
    /\ txState = "Open"
    /\ last.op = "RenameTable"
    /\ last.a = CatalogTableName
    /\ last.err = "ReadOnly"
    /\ nops >= 2
    /\ cache.tables[CatalogTableName] = LoadedCatalogTable

\* a transaction is running: it has begun and has not reached Closed
Running == txState \in {"Open", "Committing", "Rolling_back"}

\* C14: what a read-only transaction that runs beside the write transaction gets
\* from the catalog (GetIndex, GetSequence, ListIndexes, and GetTable on the
\* tables that were there) is, as long as the writer has not committed, what the
\* catalog held when the writer began.
UncommittedChangesInvisible ==
    Running =>
        /\ \A n \in TableArgs :
              /\ (GetIndex(cache, n).err = "") <=> (n \in DOMAIN pre.indexes)
              /\ (GetSequence(cache, n) = "") <=> (n \in pre.sequences)
        /\ \A n \in DOMAIN pre.tables :
              /\ GetTable(cache, n).err = ""
              /\ CatalogListIndexes(cache, n) =
                    (IF n \in DOMAIN pre.indexesPerTables
                     THEN {idx.IndexName : idx \in pre.indexesPerTables[n]}
                     ELSE {})

\* C30: on every cache an open transaction can call the catalog with, each
\* mutation of the cache (AddTable, DeleteTable, AddIndex, DeleteIndex,
\* updateTable, AddSequence, DeleteSequence) that succeeds appends exactly one
\* rollback hook, and each one that returns an error changes no map of the
\* cache and appends no hook.  The caches are those of the states in which a
\* call of Next is enabled.
OneHookPerMutation ==
    LET Ok(r) == /\ r.err = "" => Len(r.hooks) = 1
                 /\ r.err # "" => r.c = cache /\ r.hooks = <<>>
    IN txState = "Open" /\ nops < MaxOps =>
       /\ \A n \in Names, fcs \in CreateArgs : Ok(AddTable(cache, TableInfo(n, FALSE, fcs)))
       /\ \A n \in TableArgs : \A order \in Orders(IndexesOfTable(cache, n)) :
             Ok(DeleteTable(cache, n, order))
       /\ \A n \in Names, tb \in Names, ps \in IndexPaths, ts \in CallerTypes :
             Ok(AddIndex(cache, IndexInfo(n, tb, ps, ts, FALSE)))
       /\ \A n \in Names : Ok(DeleteIndex(cache, n))
       /\ \A n \in TableArgs :
             /\ \A fc \in {FieldConstraint("x", IntegerValue), FieldConstraint("y", AnyType)} :
                   Ok(updateTable(cache, n, [kind |-> "AddFieldConstraint", fc |-> fc]))
             /\ \A new \in TableArgs :
                   Ok(updateTable(cache, n, [kind |-> "RenameTable", newName |-> new]))
       /\ \A n \in Names : Ok(AddSequence(cache, n)) /\ Ok(DeleteSequence(cache, n))

\* a transaction in which a mutation succeeded, with its hook, and in which
\* others succeed or fail
MutationsSucceedAndFail ==
    /\ txState = "Open"
    /\ nops < MaxOps
    /\ last.op = "CreateSequence"
    /\ last.err = ""
    /\ registered = 1
    /\ DeleteSequence(cache, last.a).err = ""
    /\ AddSequence(cache, last.a).err # ""
    /\ \E n \in Names : updateTable(cache, n, [kind |-> "RenameTable", newName |-> "u"]).err # ""

\* the number of times the index idx appears in the list l
Occurrences(l, idx) == Cardinality({j \in 1..Len(l) : l[j] = idx})

\* C34: in every reachable state of the cache the map of the indexes by name and
\* the per-table lists agree: an IndexInfo is in indexes under its name iff it
\* appears exactly once in the list of its table, no list holds anything else,
\* and the table of every cached index is in tables.
IndexMapsAgree ==
    /\ \A n \in DOMAIN cache.indexes :
          /\ cache.indexes[n].IndexName = n
          /\ Occurrences(MapList(cache.indexesPerTables, cache.indexes[n].TableName),
                         cache.indexes[n]) = 1
          /\ cache.indexes[n].TableName \in DOMAIN cache.tables
    /\ \A tb \in DOMAIN cache.indexesPerTables :
          \A j \in 1..Len(cache.indexesPerTables[tb]) :
              LET idx == cache.indexesPerTables[tb][j] IN
              /\ idx.TableName = tb
              /\ idx.IndexName \in DOMAIN cache.indexes
              /\ cache.indexes[idx.IndexName] = idx
              /\ Occurrences(cache.indexesPerTables[tb], idx) = 1

\* C35: after Load, in every reachable state the entry of the cache for the
\* __genji_catalog table is the read-only entry that Load installed.
CatalogTableStays ==
    /\ CatalogTableName \in DOMAIN cache.tables
    /\ cache.tables[CatalogTableName] = LoadedCatalogTable
    /\ cache.tables[CatalogTableName].ReadOnly

----------------------------------------------------------------------------
(* UpdateStmt.Run (sql/query/update.go) on a table whose keys are 1..n.    *)
(*                                                                         *)
(* upd.applied[k] counts the Replace calls on row k: each of them writes   *)
(* the row with the SET or UNSET clause applied to what the scan read.     *)
(* upd.where tells which rows WHERE matches, upd.still whether a row that  *)
(* was updated still matches it, upd.bad is the key of the row on which    *)
(* the callback fails (0: on none).                                        *)

updateBufferSize == 100

\* declared with DeleteStmt (sql/query/delete.go): the size of its buffer
deleteBufferSize == 100

catIdle ==
    /\ cache = newCatalogCache
    /\ persisted = EmptyMap
    /\ enginePre = EmptyMap
    /\ pre = Snapshot(newCatalogCache)
    /\ txState = "None"
    /\ hooks = <<>>
    /\ hookPos = 0
    /\ hookLog = <<>>
    /\ registered = 0
    /\ ended = ""
    /\ last = NoCall
    /\ nops = 0

Wheres == {"all", "even", "none"}

\* whereClause(stmt.WhereExpr, stack) on the row of key k as the store holds it
whereClause(u, k) ==
    /\ CASE u.where = "all" -> TRUE
         [] u.where = "even" -> k % 2 = 0
         [] u.where = "none" -> FALSE
    /\ (u.applied[k] = 0 \/ u.still)

\* it.Seek that lands on the first key of the store whatever curKey is
SeekFirst(curKey) == 1

\* it.Seek(u.curKey): the first key not below curKey; a nil curKey is the start
Seek(curKey) == IF curKey = 0 THEN 1 ELSE curKey

\* st.Iterate(fn) after it.Seek landed on key from: resumableIterator.Iterate under
\* Filter and Limit(updateBufferSize). The iterator visits the keys in ascending
\* order, Filter passes the rows WHERE matches, Limit ends the stream after
\* updateBufferSize of them, which is no error, and the callback buffers each
\* row it gets until it fails (on the row u.bad). The result is the keys the
\* callback buffered and the error Iterate returns.
Iterate(u, from) ==
    LET visited == [j \in 1..(IF from > u.n THEN 0 ELSE u.n - from + 1) |-> from + j - 1]
        filtered == SelectSeq(visited, LAMBDA k : whereClause(u, k))
        limited == SubSeq(filtered, 1,
                          IF Len(filtered) < updateBufferSize THEN Len(filtered)
                          ELSE updateBufferSize)
        fails == \E j \in 1..Len(limited) : limited[j] = u.bad
    IN [keys |-> IF fails THEN SelectSeq(limited, LAMBDA k : k < u.bad) ELSE limited,
        err |-> IF fails THEN "callback" ELSE ""]

UpdInit ==
    \E n \in 0..MaxRows, w \in Wheres, st \in BOOLEAN, bad \in {0, 1, 2, 3, updateBufferSize} :
        upd = [pc |-> "scan", n |-> n, where |-> w, still |-> st, bad |-> bad,
               applied |-> [k \in 1..n |-> 0], curKey |-> 0, keys |-> <<>>,
               err |-> "", ret |-> "", failed |-> FALSE, batches |-> 0]

InitUpdate == catIdle /\ UpdInit /\ ix = IxIdle /\ qry = QryIdle

\* one turn of the loop, up to the end of st.Iterate
UpdateScan ==
    /\ upd.pc = "scan"
    /\ LET r == Iterate(upd, Seek(upd.curKey)) IN
       upd' = [upd EXCEPT !.pc = "replace", !.keys = r.keys, !.err = r.err,
                          !.failed = @ \/ r.err # "", !.batches = @ + 1]
    /\ UNCHANGED <<catVars, ix, qry>>

\* for j := 0; j < i; j++ { err = t.Replace(keys[j], docs[j]) }, and what follows:
\* the break when i < deleteBufferSize, else rit.curKey = keys[i-1]
UpdateReplace ==
    /\ upd.pc = "replace"
    /\ LET i == Len(upd.keys)
           err == IF i > 0 THEN "" ELSE upd.err
           applied == [k \in 1..upd.n |->
                          IF k \in Range(upd.keys) THEN upd.applied[k] + 1 ELSE upd.applied[k]]
       IN IF i < deleteBufferSize
          THEN upd' = [upd EXCEPT !.pc = "done", !.applied = applied, !.err = err, !.ret = err]
          ELSE upd' = [upd EXCEPT !.pc = "scan", !.applied = applied, !.err = err,
                                  !.curKey = upd.keys[i]]
    /\ UNCHANGED <<catVars, ix, qry>>

NextUpdate == UpdateScan \/ UpdateReplace

SpecUpdate == InitUpdate /\ [][NextUpdate]_vars

\* C4: an UPDATE applies its clause exactly once to every row WHERE matches,
\* whatever the number of such rows: no row is buffered and replaced in two
\* batches (the callback failing on no row).
UpdateAppliesOnce ==
    (upd.pc = "done" /\ ~upd.failed) =>
        \A k \in 1..upd.n :
            upd.applied[k] = (IF upd.where = "all" \/ (upd.where = "even" /\ k % 2 = 0)
                              THEN 1 ELSE 0)

\* C5: when the callback of the scan fails on a row, Run returns an error,
\* however many rows the buffer held before that row.
UpdateReturnsScanError ==
    (upd.pc = "done" /\ upd.failed) => upd.ret # ""

\* the sizes of table at which the number of batches changes: none, one batch
\* that does not fill the buffer, one that fills it, two, and a third
BatchSizes ==
    {0, 1, updateBufferSize - 1, updateBufferSize, updateBufferSize + 1,
     2 * updateBufferSize - 2, 2 * updateBufferSize - 1, 2 * updateBufferSize}

InitUpdateFair ==
    /\ catIdle
    /\ ix = IxIdle
    /\ qry = QryIdle
    /\ \E n \in BatchSizes, w \in Wheres, st \in BOOLEAN,
          bad \in {0, 1, 2, 3, updateBufferSize} :
          upd = [pc |-> "scan", n |-> n, where |-> w, still |-> st, bad |-> bad,
                 applied |-> [k \in 1..n |-> 0], curKey |-> 0, keys |-> <<>>,
                 err |-> "", ret |-> "", failed |-> FALSE, batches |-> 0]

\* Run is a sequential loop: a call that has not returned takes its next step
SpecUpdateFair == InitUpdateFair /\ [][NextUpdate]_vars /\ WF_vars(NextUpdate)

\* a scan of a batch after the first
LaterScan == upd.pc = "scan" /\ upd.batches >= 1 /\ upd'.pc = "replace"

\* the end of a batch: the rows are replaced, the loop exits or goes on
EndOfBatch == upd.pc = "replace" /\ upd'.pc # "replace"

\* C37, as stated: UPDATE on a finite table terminates, every batch after the
\* first buffers at least one row that no earlier batch buffered, and the loop
\* exits as soon as a batch buffers fewer rows than the buffer size.
UpdateTerminatesByNewRows ==
    /\ <>(upd.pc = "done")
    /\ [][LaterScan => \E j \in 1..Len(upd'.keys) : upd.applied[upd'.keys[j]] = 0]_vars
    /\ [][EndOfBatch => (upd'.pc = "done" <=> Len(upd.keys) < updateBufferSize)]_vars

\* C37, amended: UPDATE on a finite table terminates: every batch after the
\* first starts at the last key of the batch before it and buffers only rows
\* from that key on, a batch that fills the buffer moves the key where the scan
\* resumes strictly forward, and the loop exits as soon as a batch buffers fewer
\* rows than the buffer size. A batch after the first may buffer no new row.
UpdateTerminates ==
    /\ <>(upd.pc = "done")
    /\ [][LaterScan => \A j \in 1..Len(upd'.keys) : upd'.keys[j] >= upd.curKey]_vars
    /\ [][EndOfBatch => /\ upd'.pc = "done" <=> Len(upd.keys) < updateBufferSize
                        /\ upd'.pc = "scan" => upd'.curKey > upd.curKey]_vars

\* an UPDATE that took three batches: two that filled the buffer, the second
\* starting with the last row of the first, and a last one that buffered that
\* one row again
ThirdBatchEndedUpdate ==
    /\ upd.pc = "done"
    /\ upd.batches = 3
    /\ upd.n = 2 * updateBufferSize - 1
    /\ upd.curKey = upd.n
    /\ upd.keys = <<upd.n>>
    /\ upd.applied[updateBufferSize] = 2
    /\ upd.applied[upd.n] = 2
    /\ upd.ret = ""

----------------------------------------------------------------------------
(* The build of an index (Catalog.CreateIndex, Catalog.ReIndex and         *)
(* Catalog.buildIndex) over a table whose keys are 1..Len(ix.rows).        *)
(*                                                                         *)
(* A document gives each path of Paths a value, Missing when it has no     *)
(* such field. ix.entries is the store of the index: the pairs             *)
(* <<values, key>> it holds; ix.prior is what it held before the build.    *)

\* rows of the table an index is built on
MaxIdxRows == 3

Missing == 0
Values == {1, 2}
Docs == [Paths -> {Missing} \cup Values]

\* path.GetValueFromDocument(d): the value, or ErrFieldNotFound
GetValueFromDocument(d, path) ==
    IF d[path] = Missing THEN [v |-> Missing, err |-> "FieldNotFound"]
    ELSE [v |-> d[path], err |-> ""]

\* idx.Truncate(): the store of the index is emptied
Truncate(entries) == {}

\* idx.Set(values, key): a unique index refuses values it already holds
Set(entries, unique, values, key) ==
    IF unique /\ \E e \in entries : e[1] = values
    THEN [entries |-> entries, err |-> "DuplicateDocument"]
    ELSE [entries |-> entries \cup {<<values, key>>}, err |-> ""]

\* a callback that hands the error of GetValueFromDocument on to Table.Iterate
buildIndexFnStrict(entries, unique, paths, d, key) ==
    IF \E j \in 1..Len(paths) : GetValueFromDocument(d, paths[j]).err # ""
    THEN [entries |-> entries, err |-> "FieldNotFound"]
    ELSE Set(entries, unique, [j \in 1..Len(paths) |-> GetValueFromDocument(d, paths[j]).v], key)

\* the callback buildIndex gives to table.Iterate, on the document d of key key:
\* the first path the document lacks ends the callback with nil, before idx.Set
buildIndexFn(entries, unique, paths, d, key) ==
    IF \E j \in 1..Len(paths) : GetValueFromDocument(d, paths[j]).err = "FieldNotFound"
    THEN [entries |-> entries, err |-> ""]
    ELSE LET values == [j \in 1..Len(paths) |-> GetValueFromDocument(d, paths[j]).v]
             r == Set(entries, unique, values, key)
         IN [entries |-> r.entries,
             err |-> IF r.err # "" THEN "error while building the index" ELSE ""]

\* table.Iterate(fn) from the row of key k on: the rows in the order of their
\* keys, up to the first error of the callback
RECURSIVE tableIterate(_, _, _, _, _)
tableIterate(entries, unique, paths, rows, k) ==
    IF k > Len(rows) THEN [entries |-> entries, err |-> ""]
    ELSE LET r == buildIndexFn(entries, unique, paths, rows[k], k) IN
         IF r.err # "" THEN r
         ELSE tableIterate(r.entries, unique, paths, rows, k + 1)

buildIndex(entries, unique, paths, rows) == tableIterate(entries, unique, paths, rows, 1)

\* what a store may hold before REINDEX: nothing, or an entry the table no
\* longer backs
PriorEntries(paths) == {{}, {<<[j \in 1..Len(paths) |-> 2], 1>>}}

IxInit ==
    \E n \in 0..MaxIdxRows :
        \E rows \in [1..n -> Docs], paths \in IndexPaths, unique \in BOOLEAN :
            \E prior \in PriorEntries(paths) :
                ix = [pc |-> "ready", op |-> "", rows |-> rows, paths |-> paths,
                      unique |-> unique, prior |-> prior, entries |-> prior,
                      err |-> ""]

InitIndex == catIdle /\ upd = UpdIdle /\ IxInit /\ qry = QryIdle

\* Catalog.CreateIndex once the index is in the catalog: its store is new
BuildOnCreate ==
    /\ ix.pc = "ready"
    /\ ix.entries = {}
    /\ LET r == buildIndex(ix.entries, ix.unique, ix.paths, ix.rows) IN
       ix' = [ix EXCEPT !.pc = "done", !.op = "CreateIndex", !.entries = r.entries,
                        !.err = r.err]
    /\ UNCHANGED <<catVars, upd, qry>>

\* Catalog.ReIndex once the index and its table are found
BuildOnReIndex ==
    /\ ix.pc = "ready"
    /\ LET r == buildIndex(Truncate(ix.entries), ix.unique, ix.paths, ix.rows) IN
       ix' = [ix EXCEPT !.pc = "done", !.op = "ReIndex", !.entries = r.entries,
                        !.err = r.err]
    /\ UNCHANGED <<catVars, upd, qry>>

NextIndex == BuildOnCreate \/ BuildOnReIndex

SpecIndex == InitIndex /\ [][NextIndex]_vars

\* the row of key k has every path of the index
Indexable(k) == \A j \in 1..Len(ix.paths) : ix.rows[k][ix.paths[j]] # Missing

----------------------------------------------------------------------------
(* REINDEX: Catalog.ReIndex and Catalog.ReIndexAll on a catalog of two     *)
(* tables and three indexes, and the statement that picks the indexes.     *)
(*                                                                         *)
(* ix.rows gives each table its rows, ix.stores each index the entries of  *)
(* its store, ix.before the stores as the statement found them, ix.unique  *)
(* the names of the unique indexes.                                        *)

\* rows of each table of the catalog REINDEX runs on
MaxReRows == 1

\* the names of the indexes, in the order of sort.Strings
ReIndexNames == <<"i", "j", "k">>

ReCatalog ==
    Load({TableInfo("t", FALSE, <<>>), TableInfo("u", FALSE, <<>>)},
         <<IndexInfo("i", "t", <<"x">>, <<AnyType>>, FALSE),
           IndexInfo("j", "t", <<"x", "y">>, <<AnyType, AnyType>>, FALSE),
           IndexInfo("k", "u", <<"x">>, <<AnyType>>, FALSE)>>,
         {})

\* sort.Strings over a set of index names
SortNames(S) == SelectSeq(ReIndexNames, LAMBDA n : n \in S)

\* ReIndex with a Truncate that empties the store of every index of the table
CatalogReIndexTruncatesTable(c, stores, rows, unique, indexName) ==
    LET gi == GetIndex(c, indexName) IN
    IF gi.err # "" THEN [stores |-> stores, err |-> gi.err]
    ELSE LET info == gi.idxs[1]
             gt == GetTable(c, info.TableName)
         IN IF gt.err # "" THEN [stores |-> stores, err |-> gt.err]
            ELSE LET r == buildIndex({}, indexName \in unique, info.Paths,
                                     rows[info.TableName])
                 IN [stores |-> [n \in DOMAIN stores |->
                                    IF n = indexName THEN r.entries
                                    ELSE IF c.indexes[n].TableName = info.TableName THEN {}
                                    ELSE stores[n]],
                     err |-> r.err]

\* Catalog.ReIndex(tx, indexName)
CatalogReIndex(c, stores, rows, unique, indexName) ==
    LET gi == GetIndex(c, indexName) IN
    IF gi.err # "" THEN [stores |-> stores, err |-> gi.err]
    ELSE LET info == gi.idxs[1]
             gt == GetTable(c, info.TableName)
         IN IF gt.err # "" THEN [stores |-> stores, err |-> gt.err]
            ELSE LET r == buildIndex(Truncate(stores[indexName]), indexName \in unique,
                                     info.Paths, rows[info.TableName])
                 IN [stores |-> [stores EXCEPT ![indexName] = r.entries], err |-> r.err]

\* for _, indexName := range indexes { err := c.ReIndex(tx, indexName) ... }
RECURSIVE reIndexEach(_, _, _, _, _)
reIndexEach(c, stores, rows, unique, names) ==
    IF names = <<>> THEN [stores |-> stores, err |-> ""]
    ELSE LET r == CatalogReIndex(c, stores, rows, unique, Head(names)) IN
         IF r.err # "" THEN r
         ELSE reIndexEach(c, r.stores, rows, unique, Tail(names))

\* Catalog.ReIndexAll(tx): order is the order of c.cache.ListIndexes(), that of a
\* range over the map
CatalogReIndexAll(c, stores, rows, unique, order) ==
    reIndexEach(c, stores, rows, unique, order)

\* the REINDEX statement on a name: the indexes of the table of that name, or
\* else the index of that name
reIndexStmt(c, stores, rows, unique, name) ==
    LET gt == GetTable(c, name) IN
    IF gt.err = ""
    THEN reIndexEach(c, stores, rows, unique, SortNames(CatalogListIndexes(c, name)))
    ELSE reIndexEach(c, stores, rows, unique, <<name>>)

\* a row of table u has no field y
DocsOfU == {d \in Docs : d["y"] = Missing}

\* what the store of the index n may hold when the statement starts
PriorStores(n) == {{}, {<<[j \in 1..Len(ReCatalog.indexes[n].Paths) |-> 2], 1>>}}

ReInit ==
    \E nt \in 0..MaxReRows, nu \in 0..MaxReRows :
        \E rt \in [1..nt -> Docs], ru \in [1..nu -> DocsOfU], unique \in {{}, {"i"}} :
            \E si \in PriorStores("i"), sj \in PriorStores("j"), sk \in PriorStores("k") :
                LET stores == [n \in Range(ReIndexNames) |->
                                  CASE n = "i" -> si [] n = "j" -> sj [] n = "k" -> sk]
                IN ix = [pc |-> "ready", arg |-> "", rows |-> [t |-> rt, u |-> ru],
                         unique |-> unique, stores |-> stores, before |-> stores,
                         err |-> ""]

InitReIndex ==
    /\ cache = ReCatalog
    /\ persisted = EmptyMap
    /\ enginePre = EmptyMap
    /\ pre = Snapshot(ReCatalog)
    /\ txState = "None"
    /\ hooks = <<>>
    /\ hookPos = 0
    /\ hookLog = <<>>
    /\ registered = 0
    /\ ended = ""
    /\ last = NoCall
    /\ nops = 0
    /\ upd = UpdIdle
    /\ qry = QryIdle
    /\ ReInit

\* the names a REINDEX statement is given
ReIndexArgs == {"t", "u", "i", "j", "k", "nope", SequenceTableName}

ReIndexStmtRun ==
    /\ ix.pc = "ready"
    /\ \E name \in ReIndexArgs :
          LET r == reIndexStmt(cache, ix.stores, ix.rows, ix.unique, name) IN
          ix' = [ix EXCEPT !.pc = "done", !.arg = name, !.stores = r.stores, !.err = r.err]
    /\ UNCHANGED <<catVars, upd, qry>>

ReIndexAllRun ==
    /\ ix.pc = "ready"
    /\ \E order \in Orders(ListIndexes(cache)) :
          LET r == CatalogReIndexAll(cache, ix.stores, ix.rows, ix.unique, order) IN
          ix' = [ix EXCEPT !.pc = "done", !.arg = "", !.stores = r.stores, !.err = r.err]
    /\ UNCHANGED <<catVars, upd, qry>>

NextReIndex == ReIndexStmtRun \/ ReIndexAllRun

SpecReIndex == InitReIndex /\ [][NextReIndex]_vars

\* the indexes REINDEX name selects: the index of that name, the indexes of the
\* table of that name
SelectedIndexes(name) ==
    {n \in DOMAIN cache.indexes : n = name \/ cache.indexes[n].TableName = name}

\* the entries the index n has when it matches its table
EntriesOf(n) ==
    LET info == cache.indexes[n]
        rows == ix.rows[info.TableName]
    IN {<<[j \in 1..Len(info.Paths) |-> rows[k][info.Paths[j]]], k>> :
           k \in {i \in 1..Len(rows) :
                     \A j \in 1..Len(info.Paths) : rows[i][info.Paths[j]] # Missing}}

----------------------------------------------------------------------------
(* Ranges (stream/range.go): ValueRange and IndexRange once encoded, their *)
(* IsInRange and the Cost of a list of ranges.                             *)
(*                                                                         *)
(* A byte string is a sequence of bytes. An encoded range is the record    *)
(* [hasMin, min, hasMax, max, exclusive, exact, arity, indexArityMax]:     *)
(* hasMin tells whether encodedMin is not nil, which is whether Min was    *)
(* given. encode panics on a range that is exclusive and exact, so that no *)
(* encoded range is both.                                                  *)

\* length of a byte string
MaxBytesLen == 2

\* ranges in a list of ranges
MaxRanges == 2

Bytes == {1, 2}

ByteStrings == UNION {[1..n -> Bytes] : n \in 0..MaxBytesLen}

\* bytes.Compare(a, b)
RECURSIVE Compare(_, _)
Compare(a, b) ==
    IF a = <<>> THEN (IF b = <<>> THEN 0 ELSE -1)
    ELSE IF b = <<>> THEN 1
    ELSE IF Head(a) < Head(b) THEN -1
    ELSE IF Head(a) > Head(b) THEN 1
    ELSE Compare(Tail(a), Tail(b))

\* ValueRange.IsInRange(value)
ValueRangeIsInRange(r, value) ==
    LET cmpMin == IF r.hasMin THEN Compare(value, r.min) ELSE 1 IN
    IF r.exact THEN cmpMin = 0
    ELSE IF r.exclusive /\ cmpMin = 0 THEN FALSE
    ELSE LET cmpMax == IF r.hasMax THEN Compare(value, r.max) ELSE -1 IN
         IF r.exclusive /\ cmpMax = 0 THEN FALSE
         ELSE cmpMax <= 0

\* IndexRange.IsInRange that forgets the lower bound in its last line
IndexRangeIsInRangeNoMin(r, value) ==
    LET cmpMin == IF r.hasMin THEN Compare(value, r.min) ELSE 1 IN
    IF r.exact THEN {cmpMin = 0}
    ELSE IF r.exclusive /\ cmpMin = 0 THEN {FALSE}
    ELSE LET cmpMaxes ==
                 IF ~r.hasMax THEN {-1}
                 ELSE IF r.indexArityMax < r.arity
                 THEN (IF Len(r.max) - 1 <= Len(value)
                       THEN {Compare(SubSeq(value, 1, Len(r.max) - 1), r.max)}
                       ELSE {-1, 0, 1})
                 ELSE {Compare(value, r.max)}
         IN {IF r.exclusive /\ cmpMax = 0 THEN FALSE ELSE cmpMax <= 0 :
                cmpMax \in cmpMaxes}

\* IndexRange.IsInRange(value): the results it may give. value[:len(r.encodedMax)-1]
\* past the length of value reads what lies behind it in its array, or panics: the
\* comparison may then give any result.
IndexRangeIsInRange(r, value) ==
    LET cmpMin == IF r.hasMin THEN Compare(value, r.min) ELSE 1 IN
    IF r.exact THEN {cmpMin = 0}
    ELSE IF r.exclusive /\ cmpMin = 0 THEN {FALSE}
    ELSE LET cmpMaxes ==
                 IF ~r.hasMax THEN {-1}
                 ELSE IF r.indexArityMax < r.arity
                 THEN (IF Len(r.max) - 1 <= Len(value)
                       THEN {Compare(SubSeq(value, 1, Len(r.max) - 1), r.max)}
                       ELSE {-1, 0, 1})
                 ELSE {Compare(value, r.max)}
         IN {IF r.exclusive /\ cmpMax = 0 THEN FALSE ELSE cmpMin >= 0 /\ cmpMax <= 0 :
                cmpMax \in cmpMaxes}

\* ValueRanges.Cost(): a range with both bounds adds 50 and, the continue missing,
\* goes on to the last line, which adds 200
RECURSIVE ValueRangesCost(_)
ValueRangesCost(rs) ==
    IF rs = <<>> THEN 0
    ELSE LET rng == Head(rs)
             both == IF rng.hasMin /\ rng.hasMax THEN 50 ELSE 0
             this == IF rng.exact THEN 1
                     ELSE IF (rng.hasMin /\ ~rng.hasMax) \/ (~rng.hasMin /\ rng.hasMax)
                     THEN both + 100
                     ELSE both + 200
         IN this + ValueRangesCost(Tail(rs))

\* IndexRanges.Cost()
RECURSIVE IndexRangesCost(_)
IndexRangesCost(rs) ==
    IF rs = <<>> THEN 0
    ELSE LET rng == Head(rs)
             this == IF rng.exact THEN 1
                     ELSE IF rng.hasMin /\ rng.hasMax THEN 50
                     ELSE IF rng.hasMin \/ rng.hasMax THEN 100
                     ELSE 200
         IN this + IndexRangesCost(Tail(rs))

\* ValueRange.encode on what Cost reads of a range: the types of Min and Max (the
\* zero type for a bound that is not given), Exclusive and Exact. The result is
\* the range with its bounds typed, or a panic.
ValueRangeEncode(r) ==
    LET t1 == IF r.MinType # AnyType THEN r.MinType ELSE AnyType
        mixed == r.MaxType # AnyType /\ t1 # AnyType /\ t1 # r.MaxType
        rangeType == IF r.MaxType # AnyType THEN r.MaxType ELSE t1
    IN IF mixed \/ (r.Exclusive /\ r.Exact)
       THEN [panic |-> TRUE, r |-> r]
       ELSE [panic |-> FALSE,
             r |-> [r EXCEPT !.MinType = IF @ = AnyType THEN rangeType ELSE @,
                             !.MaxType = IF @ = AnyType THEN rangeType ELSE @]]

\* ValueRanges.Encode: encode on each range in turn
RECURSIVE ValueRangesEncode(_)
ValueRangesEncode(rs) ==
    IF rs = <<>> THEN [panic |-> FALSE, rs |-> <<>>]
    ELSE LET e == ValueRangeEncode(Head(rs)) IN
         IF e.panic THEN [panic |-> TRUE, rs |-> rs]
         ELSE LET rest == ValueRangesEncode(Tail(rs)) IN
              [panic |-> rest.panic, rs |-> <<e.r>> \o rest.rs]

\* what Cost reads of a ValueRange: a bound is there when its type is not zero
CostShape(r) ==
    [exact |-> r.Exact, hasMin |-> r.MinType # AnyType, hasMax |-> r.MaxType # AnyType]

\* the ranges a planner builds: the types of the bounds, Exclusive, Exact
ValueRangeArgs ==
    [MinType : {AnyType, IntegerValue, TextValue}, MaxType : {AnyType, IntegerValue, TextValue},
     Exclusive : BOOLEAN, Exact : BOOLEAN]

\* the bound of an encoded range: absent, or the encoding of a value, which is
\* never empty
Bounds == {[has |-> FALSE, b |-> <<>>]} \cup {[has |-> TRUE, b |-> b] : b \in ByteStrings \ {<<>>}}

EncodedRanges ==
    {[hasMin |-> mn.has, min |-> mn.b, hasMax |-> mx.has, max |-> mx.b,
      exclusive |-> f[1], exact |-> f[2], arity |-> a[1], indexArityMax |-> a[2]] :
        mn \in Bounds, mx \in Bounds,
        f \in {<<FALSE, FALSE>>, <<TRUE, FALSE>>, <<FALSE, TRUE>>},
        a \in {<<1, 1>>, <<1, 2>>, <<2, 1>>}}

\* what Cost looks at in a range
RangeShapes == [exact : BOOLEAN, hasMin : BOOLEAN, hasMax : BOOLEAN]

RangeInit ==
    \/ \E r \in EncodedRanges, v \in ByteStrings :
          qry = [pc |-> "ready", kind |-> "test", r |-> r, value |-> v, op |-> "",
                 res |-> FALSE]
    \/ \E n \in 0..MaxRanges : \E rs \in [1..n -> RangeShapes] :
          qry = [pc |-> "ready", kind |-> "cost", rs |-> rs, op |-> "", res |-> 0]
    \/ \E n \in 1..MaxRanges : \E rs \in [1..n -> ValueRangeArgs] :
          qry = [pc |-> "ready", kind |-> "encode", rs |-> rs, op |-> "", res |-> 0,
                 before |-> 0, panic |-> FALSE]

InitRange == catIdle /\ upd = UpdIdle /\ ix = IxIdle /\ RangeInit

ValueIsInRange ==
    /\ qry.pc = "ready"
    /\ qry.kind = "test"
    /\ qry.r.arity = 1
    /\ qry.r.indexArityMax = 1
    /\ qry' = [qry EXCEPT !.pc = "done", !.op = "ValueRange.IsInRange",
                          !.res = ValueRangeIsInRange(qry.r, qry.value)]
    /\ UNCHANGED <<catVars, upd, ix>>

IndexIsInRange ==
    /\ qry.pc = "ready"
    /\ qry.kind = "test"
    /\ \E res \in IndexRangeIsInRange(qry.r, qry.value) :
          qry' = [qry EXCEPT !.pc = "done", !.op = "IndexRange.IsInRange", !.res = res]
    /\ UNCHANGED <<catVars, upd, ix>>

ValueCost ==
    /\ qry.pc = "ready"
    /\ qry.kind = "cost"
    /\ qry' = [qry EXCEPT !.pc = "done", !.op = "ValueRanges.Cost",
                          !.res = ValueRangesCost(qry.rs)]
    /\ UNCHANGED <<catVars, upd, ix>>

IndexCost ==
    /\ qry.pc = "ready"
    /\ qry.kind = "cost"
    /\ qry' = [qry EXCEPT !.pc = "done", !.op = "IndexRanges.Cost",
                          !.res = IndexRangesCost(qry.rs)]
    /\ UNCHANGED <<catVars, upd, ix>>

\* Cost, Encode, then Cost again on the same list of ranges
EncodeThenCost ==
    /\ qry.pc = "ready"
    /\ qry.kind = "encode"
    /\ LET e == ValueRangesEncode(qry.rs) IN
       qry' = [qry EXCEPT !.pc = "done", !.op = "ValueRanges.Encode",
                 !.before = ValueRangesCost([j \in 1..Len(qry.rs) |-> CostShape(qry.rs[j])]),
                 !.panic = e.panic,
                 !.rs = e.rs,
                 !.res = ValueRangesCost([j \in 1..Len(e.rs) |-> CostShape(e.rs[j])])]
    /\ UNCHANGED <<catVars, upd, ix>>

NextRange == ValueIsInRange \/ IndexIsInRange \/ ValueCost \/ IndexCost \/ EncodeThenCost

SpecRange == InitRange /\ [][NextRange]_vars

\* v is within the bounds of r in byte order: an absent bound is no bound, a
\* bound itself is out when the range is exclusive; an exact range holds its
\* lower bound alone
WithinBounds(r, v) ==
    IF r.exact THEN r.hasMin /\ v = r.min
    ELSE /\ r.hasMin => (Compare(v, r.min) >= 0 /\ (r.exclusive => v # r.min))
         /\ r.hasMax => (Compare(v, r.max) <= 0 /\ (r.exclusive => v # r.max))

\* C15: for an encoded ValueRange and any byte string v, IsInRange(v) is true iff
\* v equals encodedMin when the range is exact, and otherwise iff encodedMin <= v
\* <= encodedMax in byte order, an absent bound being no bound and a bound itself
\* being out iff the range is exclusive.
ValueIsInRangeMatches ==
    (qry.pc = "done" /\ qry.op = "ValueRange.IsInRange") =>
        (qry.res <=> WithinBounds(qry.r, qry.value))

\* the cost the planner gives one range
RangeCost(rng) ==
    IF rng.exact THEN 1
    ELSE IF rng.hasMin /\ rng.hasMax THEN 50
    ELSE IF rng.hasMin \/ rng.hasMax THEN 100
    ELSE 200

RECURSIVE SumOfCosts(_)
SumOfCosts(rs) == IF rs = <<>> THEN 0 ELSE RangeCost(Head(rs)) + SumOfCosts(Tail(rs))

\* C16: the cost of a list of ranges is the sum over its ranges of 1 for an exact
\* range, 50 for one with both bounds, 100 for one with one bound and 200 for one
\* with none, for ValueRanges and IndexRanges alike; so a single exact range costs
\* no more than a two-sided one, which costs no more than a one-sided one, which
\* costs no more than an open one.
CostIsSumOfRangeCosts ==
    (qry.pc = "done" /\ qry.kind = "cost") =>
        /\ qry.res = SumOfCosts(qry.rs)
        /\ (Len(qry.rs) = 1 /\ ~qry.rs[1].exact /\ qry.rs[1].hasMin /\ qry.rs[1].hasMax) =>
              (1 <= qry.res /\ qry.res <= 100)

\* C17: for an encoded IndexRange whose Arity is not above IndexArityMax and any
\* byte string v, IsInRange(v) is true iff v equals encodedMin when the range is
\* exact, and otherwise iff encodedMin <= v <= encodedMax in byte order, an absent
\* bound being no bound and a bound itself being out iff the range is exclusive.
IndexIsInRangeMatches ==
    (qry.pc = "done" /\ qry.op = "IndexRange.IsInRange"
                     /\ qry.r.arity <= qry.r.indexArityMax) =>
        (qry.res <=> WithinBounds(qry.r, qry.value))

IndexRangeRefusedBelowMin ==
    /\ qry.pc = "done"
    /\ qry.op = "IndexRange.IsInRange"
    /\ qry.r.arity <= qry.r.indexArityMax
    /\ ~qry.r.exact
    /\ qry.r.hasMin
    /\ qry.r.hasMax
    /\ Compare(qry.value, qry.r.min) < 0
    /\ Compare(qry.value, qry.r.max) < 0
    /\ qry.res = FALSE

\* C38: Encode of a list of ValueRanges that does not panic leaves the Cost() of
\* the list as it was: a range with one bound is still costed as one-sided, a
\* range with no bound as open.
EncodeKeepsCost ==
    (qry.pc = "done" /\ qry.op = "ValueRanges.Encode" /\ ~qry.panic) =>
        qry.res = qry.before

----------------------------------------------------------------------------
(* The scans of the comparison operators (sql/query/expr/comparison.go):   *)
(* IterateIndex over an index, IteratePK over the store of a table.        *)
(*                                                                         *)
(* The entries of the index all have the type of v: qry.entries is the     *)
(* sequence of their values in the order of the index, and the key of an   *)
(* entry is its position. qry.rows is the store of the table in the order  *)
(* of its keys, each row a key and an encoded document. qry.out lists what *)
(* fn was given (positions of entries, keys of rows), qry.visited counts   *)
(* the entries or rows the scan read.                                      *)

\* entries of the index a scan runs on
MaxEntries == 3

\* rows of the table a scan of the primary key runs on
MaxPkRows == 2

\* the values of the indexed field, and of v
ScanValues == 1..3

IndexOps == {"=", ">", ">=", "<", "<="}

\* the callback of ltOp.IterateIndex with IsLesserThan in place of
\* IsLesserThanOrEqual
indexCallbackLtAsLte(op, v, val) ==
    CASE op = "=" -> IF v = val THEN "pass" ELSE "stop"
      [] op = ">" -> IF v = val THEN "skip" ELSE "pass"
      [] op = ">=" -> "pass"
      [] op = "<" -> IF v < val THEN "stop" ELSE "pass"
      [] op = "<=" -> IF v < val THEN "stop" ELSE "pass"

\* the callback each IterateIndex gives to idx.AscendGreaterOrEqual, on an entry
\* of value val: "pass" hands the document to fn, "skip" returns nil, "stop"
\* returns errStop
indexCallback(op, v, val) ==
    CASE op = "=" -> IF v = val THEN "pass" ELSE "stop"
      [] op = ">" -> IF v = val THEN "skip" ELSE "pass"
      [] op = ">=" -> "pass"
      [] op = "<" -> IF v <= val THEN "stop" ELSE "pass"
      [] op = "<=" -> IF v < val THEN "stop" ELSE "pass"

\* where idx.AscendGreaterOrEqual starts: at the first entry not below the pivot
\* v, at the first entry of the type of v for an empty pivot
pivotStart(op, entries, v) ==
    IF op \in {"<", "<="} THEN 1
    ELSE LET S == {i \in 1..Len(entries) : entries[i] >= v} IN
         IF S = {} THEN Len(entries) + 1 ELSE CHOOSE i \in S : \A j \in S : i <= j

\* idx.AscendGreaterOrEqual from the entry i on: the entries in the order of the
\* index, up to the first error of the callback
RECURSIVE ascendIndex(_, _, _, _, _, _)
ascendIndex(op, entries, v, i, out, visited) ==
    IF i > Len(entries) THEN [out |-> out, visited |-> visited]
    ELSE LET c == indexCallback(op, v, entries[i]) IN
         IF c = "stop" THEN [out |-> out, visited |-> visited + 1]
         ELSE ascendIndex(op, entries, v, i + 1,
                          IF c = "pass" THEN Append(out, i) ELSE out, visited + 1)

\* op.IterateIndex(idx, tb, v, fn)
IterateIndex(op, entries, v) ==
    ascendIndex(op, entries, v, pivotStart(op, entries, v), <<>>, 0)

\* An error during a scan: fault.what fails at the entry (or row) fault.at.
\* "cmp" is the comparison of the callback (IsEqual, IsLesserThan, ...), "get"
\* is tb.GetDocument, "fn" is the function of the caller, "copy" is ValueCopy;
\* "none" is a scan without error.
NoFault == [at |-> 0, what |-> "none"]

\* the callback each IterateIndex gives to idx.AscendGreaterOrEqual, on the entry
\* i of value val: the error it returns ("" for nil) and whether fn was called
indexCallbackErr(op, v, val, i, fault) ==
    IF fault.at = i /\ fault.what = "cmp" /\ op # ">="
    THEN [err |-> "errCmp", called |-> FALSE]
    ELSE LET c == indexCallback(op, v, val) IN
         IF c = "stop" THEN [err |-> "errStop", called |-> FALSE]
         ELSE IF c = "skip" THEN [err |-> "", called |-> FALSE]
         ELSE IF fault.at = i /\ fault.what = "get" THEN [err |-> "errGet", called |-> FALSE]
         ELSE [err |-> IF fault.at = i /\ fault.what = "fn" THEN "errFn" ELSE "",
               called |-> TRUE]

\* idx.AscendGreaterOrEqual from the entry i on: it calls the callback on the
\* entries in the order of the index and stops at the first error the callback
\* returns, which it returns
RECURSIVE ascendIndexErr(_, _, _, _, _, _, _)
ascendIndexErr(op, entries, v, i, fault, out, visited) ==
    IF i > Len(entries) THEN [err |-> "", out |-> out, visited |-> visited]
    ELSE LET c == indexCallbackErr(op, v, entries[i], i, fault)
             out1 == IF c.called THEN Append(out, i) ELSE out
         IN IF c.err # "" THEN [err |-> c.err, out |-> out1, visited |-> visited + 1]
            ELSE ascendIndexErr(op, entries, v, i + 1, fault, out1, visited + 1)

\* op.IterateIndex that returns the error of AscendGreaterOrEqual as it is
IterateIndexReturnsStop(op, entries, v, fault) ==
    ascendIndexErr(op, entries, v, pivotStart(op, entries, v), fault, <<>>, 0)

\* op.IterateIndex(idx, tb, v, fn) with its error: `if err != nil && err !=
\* errStop { return err }; return nil`
IterateIndexWithErr(op, entries, v, fault) ==
    LET r == ascendIndexErr(op, entries, v, pivotStart(op, entries, v), fault, <<>>, 0)
    IN [r EXCEPT !.err = IF r.err # "" /\ r.err # "errStop" THEN r.err ELSE ""]

PkOps == {">", ">=", "<", "<="}

\* the body of the loop of each IteratePK on the encoded document d of a row:
\* "pass" hands d to fn, "stop" leaves the loop (return nil, break). The
\* comparisons are made with d, the copy of the value of the item.
pkLoopBody(op, data, d) ==
    CASE op = ">" -> IF data = d THEN "stop" ELSE "pass"
      [] op = ">=" -> "pass"
      [] op = "<" -> IF Compare(data, d) <= 0 THEN "stop" ELSE "pass"
      [] op = "<=" -> IF Compare(data, d) < 0 THEN "stop" ELSE "pass"

\* it.Seek(data): the first row whose key is not below data; it.Seek(nil): the
\* first row
storeSeek(op, rows, data) ==
    IF op \in {"<", "<="} THEN 1
    ELSE LET S == {i \in 1..Len(rows) : Compare(rows[i].key, data) >= 0} IN
         IF S = {} THEN Len(rows) + 1 ELSE CHOOSE i \in S : \A j \in S : i <= j

\* for it.Seek(...); it.Valid(); it.Next() { ... }
RECURSIVE pkLoop(_, _, _, _, _, _)
pkLoop(op, rows, data, i, out, visited) ==
    IF i > Len(rows) THEN [out |-> out, visited |-> visited]
    ELSE IF pkLoopBody(op, data, rows[i].doc) = "stop"
    THEN [out |-> out, visited |-> visited + 1]
    ELSE pkLoop(op, rows, data, i + 1, Append(out, rows[i].key), visited + 1)

\* op.IteratePK(tb, data, fn)
IteratePK(op, rows, data) == pkLoop(op, rows, data, storeSeek(op, rows, data), <<>>, 0)

\* The scans that open an iterator of the engine: IteratePK of >, >=, < and <=,
\* and resumableIterator.Iterate of UPDATE ("resumable"), which seeks its
\* curKey and gives every row to fn. Each is `it := NewIterator(); defer
\* it.Close(); for it.Seek(..); it.Valid(); it.Next() { ValueCopy; ...; fn }`.
IterOps == PkOps \cup {"resumable"}

\* NewIterator without the defer of Close
NewIteratorNoDefer(q) == [q EXCEPT !.opened = @ + 1]

\* it := tb.Store.NewIterator(...); defer it.Close()
NewIteratorDefer(q) == [q EXCEPT !.opened = @ + 1, !.deferred = Append(@, "Close")]

\* it.Seek of each scan
iterSeek(op, rows, data) ==
    IF op = "resumable" THEN storeSeek(">=", rows, data) ELSE storeSeek(op, rows, data)

\* one turn of the loop on the row i: the exit it takes ("" to go on to the next
\* row), the error it returns and whether fn was called
iterLoopTurn(op, rows, data, i, fault) ==
    IF i > Len(rows) THEN [exit |-> "end", err |-> "", called |-> FALSE]
    ELSE IF fault.at = i /\ fault.what = "copy"
    THEN [exit |-> "copy", err |-> "errCopy", called |-> FALSE]
    ELSE IF op # "resumable" /\ pkLoopBody(op, data, rows[i].doc) = "stop"
    THEN [exit |-> "stop", err |-> "", called |-> FALSE]
    ELSE IF fault.at = i /\ fault.what = "fn"
    THEN [exit |-> "fn", err |-> "errFn", called |-> TRUE]
    ELSE [exit |-> "", err |-> "", called |-> TRUE]

\* the return of the function runs the deferred calls
RECURSIVE runDeferred(_, _)
runDeferred(q, calls) ==
    IF calls = <<>> THEN q
    ELSE runDeferred([q EXCEPT !.closed = @ + (IF calls[Len(calls)] = "Close" THEN 1 ELSE 0)],
                     SubSeq(calls, 1, Len(calls) - 1))

\* the keys of a table, and the encoded documents of its rows
PkKeys == ByteStrings \ {<<>>}
PkDocs == [1..1 -> Bytes]

\* the errors a scan of an index can meet
IndexFaults == {NoFault} \cup [at : 1..MaxEntries, what : {"cmp", "get", "fn"}]

\* the errors a scan of a store can meet
IterFaults == {NoFault} \cup [at : 1..MaxPkRows, what : {"copy", "fn"}]

ScanInit ==
    \/ \E n \in 0..MaxEntries : \E entries \in [1..n -> ScanValues], v \in ScanValues :
          /\ \A i \in 1..n, j \in 1..n : i < j => entries[i] <= entries[j]
          /\ qry = [pc |-> "ready", kind |-> "index", entries |-> entries, v |-> v,
                    op |-> "", out |-> <<>>, visited |-> 0]
    \/ \E n \in 0..MaxPkRows : \E rows \in [1..n -> [key : PkKeys, doc : PkDocs]],
                                  data \in PkKeys :
          /\ \A i \in 1..n, j \in 1..n : i < j => Compare(rows[i].key, rows[j].key) < 0
          /\ qry = [pc |-> "ready", kind |-> "pk", rows |-> rows, data |-> data,
                    op |-> "", out |-> <<>>, visited |-> 0]
    \/ \E n \in 0..MaxEntries : \E entries \in [1..n -> ScanValues], v \in ScanValues,
                                   fault \in IndexFaults :
          /\ \A i \in 1..n, j \in 1..n : i < j => entries[i] <= entries[j]
          /\ qry = [pc |-> "ready", kind |-> "indexErr", entries |-> entries, v |-> v,
                    fault |-> fault, op |-> "", out |-> <<>>, visited |-> 0, err |-> ""]
    \/ \E n \in 0..MaxPkRows : \E rows \in [1..n -> [key : PkKeys, doc : PkDocs]],
                                  data \in PkKeys, fault \in IterFaults :
          /\ \A i \in 1..n, j \in 1..n : i < j => Compare(rows[i].key, rows[j].key) < 0
          /\ qry = [pc |-> "ready", kind |-> "iter", rows |-> rows, data |-> data,
                    fault |-> fault, op |-> "", out |-> <<>>, i |-> 0, err |-> "",
                    exit |-> "", opened |-> 0, closed |-> 0, deferred |-> <<>>]

InitScan == catIdle /\ upd = UpdIdle /\ ix = IxIdle /\ ScanInit

IterateIndexRun ==
    /\ qry.pc = "ready"
    /\ qry.kind = "index"
    /\ \E op \in IndexOps :
          LET r == IterateIndex(op, qry.entries, qry.v) IN
          qry' = [qry EXCEPT !.pc = "done", !.op = op, !.out = r.out,
                             !.visited = r.visited]
    /\ UNCHANGED <<catVars, upd, ix>>

IteratePKRun ==
    /\ qry.pc = "ready"
    /\ qry.kind = "pk"
    /\ \E op \in PkOps :
          LET r == IteratePK(op, qry.rows, qry.data) IN
          qry' = [qry EXCEPT !.pc = "done", !.op = op, !.out = r.out,
                             !.visited = r.visited]
    /\ UNCHANGED <<catVars, upd, ix>>

IterateIndexErrRun ==
    /\ qry.pc = "ready"
    /\ qry.kind = "indexErr"
    /\ \E op \in IndexOps :
          LET r == IterateIndexWithErr(op, qry.entries, qry.v, qry.fault) IN
          qry' = [qry EXCEPT !.pc = "done", !.op = op, !.out = r.out,
                             !.visited = r.visited, !.err = r.err]
    /\ UNCHANGED <<catVars, upd, ix>>

\* the scan opens its iterator, defers its Close and seeks
IterOpen ==
    /\ qry.pc = "ready"
    /\ qry.kind = "iter"
    /\ \E op \in IterOps :
          qry' = [NewIteratorDefer(qry) EXCEPT !.pc = "loop", !.op = op,
                                              !.i = iterSeek(op, qry.rows, qry.data)]
    /\ UNCHANGED <<catVars, upd, ix>>

\* one turn of the loop: it goes on to the next row or reaches a return
IterTurn ==
    /\ qry.pc = "loop"
    /\ qry.kind = "iter"
    /\ LET t == iterLoopTurn(qry.op, qry.rows, qry.data, qry.i, qry.fault)
           out == IF t.called THEN Append(qry.out, qry.rows[qry.i].key) ELSE qry.out
       IN IF t.exit = ""
          THEN qry' = [qry EXCEPT !.i = @ + 1, !.out = out]
          ELSE qry' = [qry EXCEPT !.pc = "return", !.exit = t.exit, !.err = t.err,
                                  !.out = out]
    /\ UNCHANGED <<catVars, upd, ix>>

\* the function returns: its deferred calls run
IterReturn ==
    /\ qry.pc = "return"
    /\ qry.kind = "iter"
    /\ qry' = [runDeferred(qry, qry.deferred) EXCEPT !.pc = "done", !.deferred = <<>>]
    /\ UNCHANGED <<catVars, upd, ix>>

NextScan ==
    \/ IterateIndexRun
    \/ IteratePKRun
    \/ IterateIndexErrRun
    \/ IterOpen
    \/ IterTurn
    \/ IterReturn

SpecScan == InitScan /\ [][NextScan]_vars

\* k op v
Satisfies(op, k, v) ==
    CASE op = "=" -> k = v
      [] op = ">" -> k > v
      [] op = ">=" -> k >= v
      [] op = "<" -> k < v
      [] op = "<=" -> k <= v

\* the positions 1..n as a sequence
Positions(n) == [i \in 1..n |-> i]

\* C18: on an index whose entries all have the type of v, IterateIndex of =, >,
\* >=, < and <= gives fn the rows whose indexed value k satisfies k op v, each
\* entry once and in the order of the index; the = scan reads no entry past the
\* first k # v, the < scan none past the first k >= v, the <= scan none past the
\* first k > v.
IndexScanMatches ==
    (qry.pc = "done" /\ qry.kind = "index") =>
        /\ qry.out = SelectSeq(Positions(Len(qry.entries)),
                               LAMBDA i : Satisfies(qry.op, qry.entries[i], qry.v))
        /\ qry.op \in {"=", "<", "<="} =>
              qry.visited = Len(qry.out) +
                 (IF \E i \in 1..Len(qry.entries) :
                        /\ ~Satisfies(qry.op, qry.entries[i], qry.v)
                        /\ qry.entries[i] > qry.v \/ qry.op = "<"
                  THEN 1 ELSE 0)

LtScanStoppedEarly ==
    /\ qry.pc = "done"
    /\ qry.kind = "index"
    /\ qry.op = "<"
    /\ Len(qry.out) >= 1
    /\ qry.visited = Len(qry.out) + 1
    /\ Len(qry.entries) > qry.visited
    /\ qry.entries[qry.visited] = qry.v

\* C32: IterateIndex returns nil when the scan reached the end of the index or
\* was ended by the stop sentinel, and returns unchanged the first error of the
\* comparison, of the row lookup or of fn, after which it visits no entry; it
\* never returns the stop sentinel. The scan without error is IterateIndex.
IterateIndexErrors ==
    (qry.pc = "done" /\ qry.kind = "indexErr") =>
        LET clean == IterateIndex(qry.op, qry.entries, qry.v)
            start == pivotStart(qry.op, qry.entries, qry.v)
            at == qry.fault.at
            what == qry.fault.what
            read == at >= start /\ at < start + clean.visited
            given == \E j \in 1..Len(clean.out) : clean.out[j] = at
            raised == \/ what = "cmp" /\ read /\ qry.op # ">="
                      \/ what \in {"get", "fn"} /\ given
        IN /\ qry.err # "errStop"
           /\ ~raised => /\ qry.err = ""
                         /\ qry.out = clean.out
                         /\ qry.visited = clean.visited
           /\ raised => /\ qry.err = (CASE what = "cmp" -> "errCmp"
                                         [] what = "get" -> "errGet"
                                         [] what = "fn" -> "errFn")
                        /\ qry.visited = at - start + 1
                        /\ qry.out = SelectSeq(clean.out,
                                         LAMBDA i : i < at \/ (i = at /\ what = "fn"))

\* fn returned an error on the first of two entries that match
FnErrorEndedScan ==
    /\ qry.pc = "done"
    /\ qry.kind = "indexErr"
    /\ qry.op = "<="
    /\ qry.fault = [at |-> 1, what |-> "fn"]
    /\ Len(qry.entries) = 3
    /\ qry.entries[2] <= qry.v
    /\ qry.entries[3] > qry.v
    /\ qry.err = "errFn"
    /\ qry.out = <<1>>
    /\ qry.visited = 1

\* C33: the iterator a scan of the primary key (IteratePK of >, >=, <, <=) or
\* the resumable scan of UPDATE opens is closed exactly once when the scan has
\* returned, whatever the exit: end of data, early stop, error of ValueCopy,
\* error of fn; it is not closed before the return, and no scan opens a second
\* iterator.
IteratorClosedOnce ==
    (qry.pc \in {"loop", "return", "done"} /\ qry.kind = "iter") =>
        /\ qry.opened = 1
        /\ qry.closed = (IF qry.pc = "done" THEN 1 ELSE 0)
        /\ qry.pc = "done" =>
              /\ qry.exit \in {"end", "stop", "copy", "fn"}
              /\ qry.err = (CASE qry.exit = "copy" -> "errCopy"
                              [] qry.exit = "fn" -> "errFn"
                              [] OTHER -> "")

\* a scan that ValueCopy ended with an error on its second row
ClosedAfterCopyError ==
    /\ qry.pc = "done"
    /\ qry.kind = "iter"
    /\ qry.op = "resumable"
    /\ qry.exit = "copy"
    /\ qry.err = "errCopy"
    /\ Len(qry.out) = 1
    /\ qry.opened = 1
    /\ qry.closed = 1

\* the keys of a sequence of rows
KeysOf(hits) == [i \in 1..Len(hits) |-> hits[i].key]

\* C19: IteratePK of > with the key data gives fn the rows whose primary key is
\* above data, in the order of the keys: the row of key data, when there is one,
\* is skipped and every row after it is still given.
GtPKScanMatches ==
    (qry.pc = "done" /\ qry.kind = "pk" /\ qry.op = ">") =>
        qry.out = KeysOf(SelectSeq(qry.rows, LAMBDA row : Compare(row.key, qry.data) > 0))

\* C20: IteratePK of < (of <=) with the key data gives fn the rows whose primary
\* key is below (not above) data, in the order of the keys, and reads no row past
\* the first whose key is >= data (> data).
LtPKScanMatches ==
    (qry.pc = "done" /\ qry.kind = "pk" /\ qry.op \in {"<", "<="}) =>
        LET Below(k) == IF qry.op = "<" THEN Compare(k, qry.data) < 0
                        ELSE Compare(k, qry.data) <= 0
        IN /\ qry.out = KeysOf(SelectSeq(qry.rows, LAMBDA row : Below(row.key)))
           /\ qry.visited = Len(qry.out) +
                 (IF \E i \in 1..Len(qry.rows) : ~Below(qry.rows[i].key) THEN 1 ELSE 0)

----------------------------------------------------------------------------
(* Values (document/value.go, document/cast.go, types/types.go) and the    *)
(* aggregators of package functions.                                       *)
(*                                                                         *)
(* A value is a record [nilV, tp, v]: tp is the type tag, v a sequence of  *)
(* integers for what V() holds, nilV tells that V() is the nil interface.  *)
(* An Integer holds <<n>>, n an int64 of IntBits bits; a Double <<h>>, its *)
(* number of halves (<<3>> is 1.5); a Bool <<0>> or <<1>>; a Text and a    *)
(* Blob their bytes ("a" is <<97>>); an Array the integers that are its    *)
(* elements; a Document the numbers of its fields.                         *)

NullValue == 128
BoolValue == 129
DoubleValue == 160
ArrayValue == 224
DocumentValue == 240

\* the width of int64
IntBits == 4

MinInt64 == -(2 ^ (IntBits - 1))
MaxInt64 == 2 ^ (IntBits - 1) - 1
Int64 == MinInt64..MaxInt64

\* the int64 that holds n: n modulo 2^IntBits
int64(n) == ((n - MinInt64) % (2 ^ IntBits)) + MinInt64

NewValueWith(t, v) == [nilV |-> FALSE, tp |-> t, v |-> v]
NewEmptyValue(t) == [nilV |-> TRUE, tp |-> t, v |-> <<>>]
NewNullValue == NewEmptyValue(NullValue)
NewBoolValue(x) == NewValueWith(BoolValue, <<IF x THEN 1 ELSE 0>>)
NewIntegerValue(x) == NewValueWith(IntegerValue, <<x>>)
NewDoubleValue(x) == NewValueWith(DoubleValue, <<x>>)
NewBlobValue(x) == NewValueWith(BlobValue, x)
NewTextValue(x) == NewValueWith(TextValue, x)

IsNumber(t) == t = IntegerValue \/ t = DoubleValue

\* float64(n) of an int64 n, and int64(f) of a float64 f (towards zero)
float64(n) == 2 * n
truncate(f) == IF f >= 0 THEN f \div 2 ELSE -((-f) \div 2)

\* xa / xb and xa % xb of Go on integers: the quotient is truncated towards
\* zero, the remainder has the sign of xa
quo(xa, xb) ==
    LET q == (IF xa >= 0 THEN xa ELSE -xa) \div (IF xb >= 0 THEN xb ELSE -xb) IN
    IF (xa < 0) = (xb < 0) THEN q ELSE -q
rem(xa, xb) == xa - xb * quo(xa, xb)

\* xa & xb, xa | xb, xa ^ xb on the IntBits bits of the two's complement
RECURSIVE bitwise(_, _, _, _)
bitwise(operator, ua, ub, n) ==
    IF n = 0 THEN 0
    ELSE LET x == ua % 2
             y == ub % 2
             bit == CASE operator = "&" -> IF x = 1 /\ y = 1 THEN 1 ELSE 0
                      [] operator = "|" -> IF x = 1 \/ y = 1 THEN 1 ELSE 0
                      [] operator = "^" -> IF x # y THEN 1 ELSE 0
         IN bit + 2 * bitwise(operator, ua \div 2, ub \div 2, n - 1)

calculateIntegers(a, b, operator) ==
    LET xa == a.v[1]
        yb == b.v[1]
        plus(xb) ==
            LET xr == int64(xa + xb) IN
            IF (xr > xa) # (xb > 0)
            THEN NewDoubleValue(float64(xa) + float64(xb))
            ELSE NewIntegerValue(xr)
    IN CASE operator = "-" -> plus(int64(-yb))
         [] operator = "+" -> plus(yb)
         [] operator = "*" ->
              IF xa = 0 \/ yb = 0 THEN NewIntegerValue(0)
              ELSE LET xr == int64(xa * yb) IN
                   IF (xr < 0) = ((xa < 0) # (yb < 0)) /\ int64(quo(xr, yb)) = xa
                   THEN NewIntegerValue(xr)
                   ELSE NewDoubleValue((float64(xa) * float64(yb)) \div 2)
         [] operator = "/" ->
              IF yb = 0 THEN NewNullValue ELSE NewIntegerValue(int64(quo(xa, yb)))
         [] operator = "%" ->
              IF yb = 0 THEN NewNullValue ELSE NewIntegerValue(rem(xa, yb))
         [] operator \in {"&", "|", "^"} ->
              NewIntegerValue(int64(bitwise(operator, xa % (2 ^ IntBits),
                                            yb % (2 ^ IntBits), IntBits)))

\* CastAsDouble of the two operands, then the operation on float64. The halves
\* stand for the precision of float64: a product or a quotient is rounded to a
\* half.
calculateFloats(a, b, operator) ==
    LET xa == IF a.tp = IntegerValue THEN float64(a.v[1]) ELSE a.v[1]
        xb == IF b.tp = IntegerValue THEN float64(b.v[1]) ELSE b.v[1]
        ia == int64(truncate(xa))
        ib == int64(truncate(xb))
    IN CASE operator = "+" -> NewDoubleValue(xa + xb)
         [] operator = "-" -> NewDoubleValue(xa - xb)
         [] operator = "*" -> NewDoubleValue((xa * xb) \div 2)
         [] operator = "/" ->
              IF xb = 0 THEN NewNullValue ELSE NewDoubleValue(quo(2 * xa, xb))
         [] operator = "%" ->
              IF xb = 0 THEN NewNullValue ELSE NewDoubleValue(rem(xa, xb))
         [] operator \in {"&", "|", "^"} ->
              NewIntegerValue(int64(bitwise(operator, ia % (2 ^ IntBits),
                                            ib % (2 ^ IntBits), IntBits)))

calculateValues(a, b, operator) ==
    IF a.tp = NullValue \/ b.tp = NullValue THEN NewNullValue
    ELSE IF a.tp = BoolValue \/ b.tp = BoolValue THEN NewNullValue
    ELSE IF IsNumber(a.tp) /\ IsNumber(b.tp)
    THEN IF a.tp = DoubleValue \/ b.tp = DoubleValue
         THEN calculateFloats(a, b, operator)
         ELSE calculateIntegers(a, b, operator)
    ELSE NewNullValue

\* the order of two values of one type, Integer and Double being one family:
\* -1, 0 or 1
valueCompare(l, r) ==
    LET num(x) == IF x.tp = IntegerValue THEN float64(x.v[1]) ELSE x.v[1]
        sign(n) == IF n < 0 THEN -1 ELSE IF n > 0 THEN 1 ELSE 0
    IN CASE IsNumber(l.tp) -> sign(num(l) - num(r))
         [] l.tp = BoolValue -> sign(l.v[1] - r.v[1])
         [] l.tp \in {TextValue, BlobValue} -> sign(Compare(l.v, r.v))

\* whether two values can be ordered: they have one type, or both are numbers
comparable(l, r) ==
    /\ l.tp = r.tp \/ (IsNumber(l.tp) /\ IsNumber(r.tp))
    /\ l.tp \in {BoolValue, IntegerValue, DoubleValue, TextValue, BlobValue}

CmpToks == {"=", "!=", ">", ">=", "<", "<="}

\* cmpOp.compare: IsEqual, IsNotEqual, IsGreaterThan, ... of the two values
compare(tok, l, r) ==
    IF ~comparable(l, r) THEN (tok = "!=" /\ l # r) \/ (tok = "=" /\ l = r)
    ELSE LET c == valueCompare(l, r) IN
         CASE tok = "=" -> c = 0
           [] tok = "!=" -> c # 0
           [] tok = ">" -> c > 0
           [] tok = ">=" -> c >= 0
           [] tok = "<" -> c < 0
           [] tok = "<=" -> c <= 0

trueLitteral == NewBoolValue(TRUE)
falseLitteral == NewBoolValue(FALSE)
nullLitteral == NewNullValue

\* cmpOp.Eval that compares a Null operand like any other value
cmpOpEvalComparesNull(tok, v1, v2) ==
    IF compare(tok, v1, v2) THEN trueLitteral ELSE falseLitteral

\* cmpOp.Eval on the values v1, v2 of its operands
cmpOpEval(tok, v1, v2) ==
    IF v1.tp = NullValue \/ v2.tp = NullValue THEN nullLitteral
    ELSE IF compare(tok, v1, v2) THEN trueLitteral ELSE falseLitteral

\* inOp.Eval on the values a, b of its operands
inOpEval(a, b) ==
    IF a.tp = NullValue \/ b.tp = NullValue THEN nullLitteral
    ELSE IF b.tp # ArrayValue THEN falseLitteral
    ELSE IF \E i \in 1..Len(b.v) : compare("=", NewIntegerValue(b.v[i]), a) THEN trueLitteral
    ELSE falseLitteral

\* notInOp.Eval
notInOpEval(a, b) ==
    LET v == inOpEval(a, b) IN
    IF v = trueLitteral THEN falseLitteral
    ELSE IF v = falseLitteral THEN trueLitteral
    ELSE v

\* the result of a cast: the value, or an error and no value
CastOk(v) == [err |-> FALSE, v |-> v]
CastErr == [err |-> TRUE, v |-> NewEmptyValue(AnyType)]

\* the number that a sequence of decimal digits writes, -1 when the bytes are
\* not all digits or there is none
RECURSIVE atoi(_)
atoi(s) ==
    IF Len(s) = 0 THEN -1
    ELSE LET d == s[Len(s)] - 48 IN
         IF d \notin 0..9 THEN -1
         ELSE IF Len(s) = 1 THEN d
         ELSE LET hi == atoi(SubSeq(s, 1, Len(s) - 1)) IN
              IF hi < 0 THEN -1 ELSE 10 * hi + d

\* the decimal digits of n >= 0
RECURSIVE itoa(_)
itoa(n) == IF n < 10 THEN <<48 + n>> ELSE itoa(n \div 10) \o <<48 + (n % 10)>>

\* strconv.ParseInt(s, 10, 64): a sign, then digits, within int64
ParseInt(s) ==
    LET neg == Len(s) > 0 /\ s[1] = 45
        n == atoi(IF neg THEN Tail(s) ELSE s)
        x == IF neg THEN -n ELSE n
    IN IF n < 0 \/ x \notin Int64 THEN [err |-> TRUE, x |-> 0] ELSE [err |-> FALSE, x |-> x]

\* strconv.ParseFloat(s, 64) on the decimal writings of the halves: digits, or
\* digits followed by ".5", after an optional sign; the result in halves
ParseFloat(s) ==
    LET neg == Len(s) > 0 /\ s[1] = 45
        t == IF neg THEN Tail(s) ELSE s
        half == Len(t) >= 3 /\ t[Len(t) - 1] = 46 /\ t[Len(t)] = 53
        n == atoi(IF half THEN SubSeq(t, 1, Len(t) - 2) ELSE t)
        f == 2 * n + (IF half THEN 1 ELSE 0)
    IN IF n < 0 THEN [err |-> TRUE, x |-> 0]
       ELSE [err |-> FALSE, x |-> IF neg THEN -f ELSE f]

\* strconv.ParseBool: "1", "t", "T", "TRUE", "true", "True" and "0", "f", "F",
\* "FALSE", "false", "False"
ParseBool(s) ==
    IF s \in {<<49>>, <<116>>, <<84>>, <<84, 82, 85, 69>>, <<116, 114, 117, 101>>,
              <<84, 114, 117, 101>>}
    THEN [err |-> FALSE, x |-> TRUE]
    ELSE IF s \in {<<48>>, <<102>>, <<70>>, <<70, 65, 76, 83, 69>>,
                   <<102, 97, 108, 115, 101>>, <<70, 97, 108, 115, 101>>}
    THEN [err |-> FALSE, x |-> FALSE]
    ELSE [err |-> TRUE, x |-> FALSE]

\* base64.StdEncoding of the blobs of the model: "" for the empty blob, "YQ=="
\* for the blob "a", "dHJ1ZQ==" for the blob "true"
Base64 ==
    <<[blob |-> <<>>, text |-> <<>>],
      [blob |-> <<97>>, text |-> <<89, 81, 61, 61>>],
      [blob |-> <<116, 114, 117, 101>>, text |-> <<100, 72, 74, 49, 90, 81, 61, 61>>],
      [blob |-> <<182, 187, 158>>, text |-> <<116, 114, 117, 101>>]>>

\* value.MarshalJSON
MarshalJSON(v) ==
    CASE v.tp = NullValue -> <<110, 117, 108, 108>>
      [] v.tp = BoolValue ->
           IF v.v[1] = 1 THEN <<116, 114, 117, 101>> ELSE <<102, 97, 108, 115, 101>>
      [] v.tp = IntegerValue ->
           IF v.v[1] < 0 THEN <<45>> \o itoa(-v.v[1]) ELSE itoa(v.v[1])
      [] v.tp = DoubleValue ->
           LET f == v.v[1]
               abs == IF f < 0 THEN -f ELSE f
           IN (IF f < 0 THEN <<45>> ELSE <<>>) \o itoa(abs \div 2)
                 \o (IF abs % 2 = 1 THEN <<46, 53>> ELSE <<>>)
      [] v.tp = TextValue -> <<34>> \o v.v \o <<34>>
      [] v.tp = BlobValue ->
           LET i == CHOOSE i \in 1..Len(Base64) : Base64[i].blob = v.v IN
           <<34>> \o Base64[i].text \o <<34>>
      [] v.tp = ArrayValue ->
           IF Len(v.v) = 0 THEN <<91, 93>>
           ELSE <<91>> \o itoa(v.v[1]) \o <<93>>
      [] v.tp = DocumentValue ->
           IF Len(v.v) = 0 THEN <<123, 125>>
           ELSE <<123, 34, 97, 34, 58>> \o itoa(v.v[1]) \o <<125>>

CastAsBool(v) ==
    CASE v.tp = BoolValue -> CastOk(v)
      [] v.tp = IntegerValue -> CastOk(NewBoolValue(v.v[1] # 0))
      [] v.tp = TextValue ->
           LET b == ParseBool(v.v) IN
           IF b.err THEN CastErr ELSE CastOk(NewBoolValue(b.x))
      [] OTHER -> CastErr

CastAsInteger(v) ==
    CASE v.tp = IntegerValue -> CastOk(v)
      [] v.tp = BoolValue -> CastOk(NewIntegerValue(v.v[1]))
      [] v.tp = DoubleValue -> CastOk(NewIntegerValue(int64(truncate(v.v[1]))))
      [] v.tp = TextValue ->
           LET i == ParseInt(v.v)
               f == ParseFloat(v.v)
           IN IF ~i.err THEN CastOk(NewIntegerValue(i.x))
              ELSE IF f.err THEN CastErr
              ELSE CastOk(NewIntegerValue(int64(truncate(f.x))))
      [] OTHER -> CastErr

CastAsDouble(v) ==
    CASE v.tp = DoubleValue -> CastOk(v)
      [] v.tp = IntegerValue -> CastOk(NewDoubleValue(float64(v.v[1])))
      [] v.tp = TextValue ->
           LET f == ParseFloat(v.v) IN
           IF f.err THEN CastErr ELSE CastOk(NewDoubleValue(f.x))
      [] OTHER -> CastErr

\* the JSON of a text is the text between quotes, and strconv.Unquote takes
\* the quotes of the JSON of a blob away
CastAsText(v) ==
    IF v.tp = TextValue THEN CastOk(v)
    ELSE LET s == MarshalJSON(v) IN
         CastOk(NewTextValue(IF v.tp = BlobValue THEN SubSeq(s, 2, Len(s) - 1) ELSE s))

CastAsBlob(v) ==
    IF v.tp = BlobValue THEN CastOk(v)
    ELSE IF v.tp = TextValue
    THEN IF \E i \in 1..Len(Base64) : Base64[i].text = v.v
         THEN CastOk(NewBlobValue(
                 Base64[CHOOSE i \in 1..Len(Base64) : Base64[i].text = v.v].blob))
         ELSE CastErr
    ELSE CastErr

\* ValueBuffer.UnmarshalJSON on the arrays the model writes: "[]" and "[n]"
CastAsArray(v) ==
    IF v.tp = ArrayValue THEN CastOk(v)
    ELSE IF v.tp = TextValue
    THEN LET s == v.v
             n == IF Len(s) < 3 THEN -1 ELSE atoi(SubSeq(s, 2, Len(s) - 1))
         IN IF s = <<91, 93>> THEN CastOk(NewValueWith(ArrayValue, <<>>))
            ELSE IF Len(s) >= 3 /\ s[1] = 91 /\ s[Len(s)] = 93 /\ n >= 0
            THEN CastOk(NewValueWith(ArrayValue, <<n>>))
            ELSE CastErr
    ELSE CastErr

\* FieldBuffer.UnmarshalJSON on the documents the model writes: "{}" and
\* {"a":n}
CastAsDocument(v) ==
    IF v.tp = DocumentValue THEN CastOk(v)
    ELSE IF v.tp = TextValue
    THEN LET s == v.v
             n == IF Len(s) < 7 THEN -1 ELSE atoi(SubSeq(s, 6, Len(s) - 1))
         IN IF s = <<123, 125>> THEN CastOk(NewValueWith(DocumentValue, <<>>))
            ELSE IF Len(s) >= 7 /\ SubSeq(s, 1, 5) = <<123, 34, 97, 34, 58>>
                    /\ s[Len(s)] = 125 /\ n >= 0
            THEN CastOk(NewValueWith(DocumentValue, <<n>>))
            ELSE CastErr
    ELSE CastErr

\* CastAs that casts a Null like any other value
CastAsNoNull(v, t) ==
    IF v.tp = t THEN CastOk(v)
    ELSE CASE t = BoolValue -> CastAsBool(v)
           [] t = IntegerValue -> CastAsInteger(v)
           [] t = DoubleValue -> CastAsDouble(v)
           [] t = BlobValue -> CastAsBlob(v)
           [] t = TextValue -> CastAsText(v)
           [] t = ArrayValue -> CastAsArray(v)
           [] t = DocumentValue -> CastAsDocument(v)
           [] OTHER -> CastErr

CastAs(v, t) ==
    IF v.tp = t THEN CastOk(v)
    ELSE IF v.tp = NullValue THEN CastOk(v)
    ELSE CASE t = BoolValue -> CastAsBool(v)
           [] t = IntegerValue -> CastAsInteger(v)
           [] t = DoubleValue -> CastAsDouble(v)
           [] t = BlobValue -> CastAsBlob(v)
           [] t = TextValue -> CastAsText(v)
           [] t = ArrayValue -> CastAsArray(v)
           [] t = DocumentValue -> CastAsDocument(v)
           [] OTHER -> CastErr

IsZeroValue(v) ==
    CASE v.tp = BoolValue -> ~v.nilV /\ v.v[1] = 0
      [] v.tp = IntegerValue -> ~v.nilV /\ v.v[1] = 0
      [] v.tp = DoubleValue -> ~v.nilV /\ v.v[1] = 0
      [] v.tp = BlobValue -> v.nilV
      [] v.tp = TextValue -> ~v.nilV /\ v.v = <<>>
      [] v.tp = ArrayValue -> Len(v.v) = 0
      [] v.tp = DocumentValue -> Len(v.v) = 0
      [] OTHER -> FALSE

IsTruthy(v) == IF v.tp = NullValue THEN FALSE ELSE ~IsZeroValue(v)

\* the n binary digits of u, the most significant first
RECURSIVE bigEndian(_, _)
bigEndian(u, n) == IF n = 0 THEN <<>> ELSE bigEndian(u \div 2, n - 1) \o <<u % 2>>

\* binarysort.AppendBool: one byte, 0 or 1
AppendBool(x) == <<x>>

\* binarysort.AppendInt64: the two's complement with the sign bit flipped (the
\* number x + 2^(IntBits-1) without sign), the most significant digit first
AppendInt64(x) == bigEndian(x + 2 ^ (IntBits - 1), IntBits)

\* binarysort.AppendFloat64: the bits of the float, a sign and a magnitude that
\* grows with the absolute value, with the sign bit flipped for a positive
\* float and every bit flipped for a negative one
AppendFloat64(f) ==
    LET n == IntBits + 2
        bits == IF f >= 0 THEN f ELSE 2 ^ n + (-f)
    IN bigEndian(IF f >= 0 THEN bits + 2 ^ n ELSE (2 ^ (n + 1) - 1) - bits, n + 1)

\* value.Append that appends nothing for a Blob
valueAppendBlobAsNull(v) ==
    CASE v.tp = TextValue -> v.v
      [] v.tp = BoolValue -> AppendBool(v.v[1])
      [] v.tp = IntegerValue -> AppendInt64(v.v[1])
      [] v.tp = DoubleValue -> AppendFloat64(v.v[1])
      [] OTHER -> <<>>

\* value.Append(nil), for the types whose encoding is a key
valueAppend(v) ==
    CASE v.tp = BlobValue -> v.v
      [] v.tp = TextValue -> v.v
      [] v.tp = BoolValue -> AppendBool(v.v[1])
      [] v.tp = IntegerValue -> AppendInt64(v.v[1])
      [] v.tp = DoubleValue -> AppendFloat64(v.v[1])
      [] v.tp = NullValue -> <<>>

\* what Fn.Expr.Eval gives an aggregator for one row: the value of the field,
\* or NullLiteral and ErrFieldNotFound when the row has no such field
evalField(v) == [v |-> v, err |-> ""]
evalMissing == [v |-> NewNullValue, err |-> "ErrFieldNotFound"]

\* CountAggregator.Aggregate that counts every row
CountAggregateCountsNull(count, wildcard, in) == int64(count + 1)

\* CountAggregator.Aggregate: the new Count
CountAggregate(count, wildcard, in) ==
    IF wildcard THEN int64(count + 1)
    ELSE IF in.v # NewNullValue THEN int64(count + 1)
    ELSE count

\* MinAggregator.Aggregate that orders an Integer and a Double by their tags
MinAggregateNoFamily(min, in) ==
    IF in.v = NewNullValue THEN min
    ELSE IF min.tp = AnyType THEN in.v
    ELSE IF min.tp = in.v.tp
    THEN IF valueCompare(min, in.v) > 0 THEN in.v ELSE min
    ELSE IF min.tp > in.v.tp THEN in.v
    ELSE min

\* MinAggregator.Aggregate: the new Min
MinAggregate(min, in) ==
    IF in.v = NewNullValue THEN min
    ELSE IF min.tp = AnyType THEN in.v
    ELSE IF min.tp = in.v.tp \/ (IsNumber(min.tp) /\ IsNumber(in.v.tp))
    THEN IF valueCompare(min, in.v) > 0 THEN in.v ELSE min
    ELSE IF min.tp > in.v.tp THEN in.v
    ELSE min

\* MaxAggregator.Aggregate: the new Max
MaxAggregate(max, in) ==
    IF in.v = NewNullValue THEN max
    ELSE IF max.tp = AnyType THEN in.v
    ELSE IF max.tp = in.v.tp \/ (IsNumber(max.tp) /\ IsNumber(in.v.tp))
    THEN IF valueCompare(max, in.v) < 0 THEN in.v ELSE max
    ELSE IF max.tp < in.v.tp THEN in.v
    ELSE max

\* SumAggregator.Aggregate that starts the float sum at zero
SumAggregateDropsIntegers(st, in) ==
    IF in.v.tp # IntegerValue /\ in.v.tp # DoubleValue THEN st
    ELSE IF st.hasF
    THEN [st EXCEPT !.SumF = @ + (IF in.v.tp = IntegerValue THEN float64(in.v.v[1])
                                  ELSE in.v.v[1])]
    ELSE IF in.v.tp = DoubleValue
    THEN [st EXCEPT !.hasF = TRUE, !.SumF = in.v.v[1]]
    ELSE [st EXCEPT !.hasI = TRUE, !.SumI = int64(@ + in.v.v[1])]

\* SumAggregator.Aggregate: hasI and hasF tell that SumI and SumF are not nil
SumAggregate(st, in) ==
    IF in.v.tp # IntegerValue /\ in.v.tp # DoubleValue THEN st
    ELSE IF st.hasF
    THEN [st EXCEPT !.SumF = @ + (IF in.v.tp = IntegerValue THEN float64(in.v.v[1])
                                  ELSE in.v.v[1])]
    ELSE IF in.v.tp = DoubleValue
    THEN [st EXCEPT !.hasF = TRUE,
                    !.SumF = (IF st.hasI THEN float64(st.SumI) ELSE 0) + in.v.v[1]]
    ELSE [st EXCEPT !.hasI = TRUE, !.SumI = int64(@ + in.v.v[1])]

\* AvgAggregator.Aggregate
AvgAggregate(st, in) ==
    CASE in.v.tp = IntegerValue ->
           [Avg |-> st.Avg + float64(in.v.v[1]), Counter |-> st.Counter + 1]
      [] in.v.tp = DoubleValue ->
           [Avg |-> st.Avg + in.v.v[1], Counter |-> st.Counter + 1]
      [] OTHER -> st

AggregateFns == {"COUNT", "COUNT(*)", "MIN", "MAX", "SUM", "AVG"}

\* a new aggregator of each function
Aggregator(fn) ==
    CASE fn \in {"COUNT", "COUNT(*)"} -> 0
      [] fn \in {"MIN", "MAX"} -> NewEmptyValue(AnyType)
      [] fn = "SUM" -> [hasI |-> FALSE, SumI |-> 0, hasF |-> FALSE, SumF |-> 0]
      [] fn = "AVG" -> [Avg |-> 0, Counter |-> 0]

\* Aggregate of the aggregator of fn on each row in turn
RECURSIVE aggregateRows(_, _, _, _)
aggregateRows(fn, st, rows, i) ==
    IF i > Len(rows) THEN st
    ELSE aggregateRows(fn,
            CASE fn = "COUNT" -> CountAggregate(st, FALSE, rows[i])
              [] fn = "COUNT(*)" -> CountAggregate(st, TRUE, rows[i])
              [] fn = "MIN" -> MinAggregate(st, rows[i])
              [] fn = "MAX" -> MaxAggregate(st, rows[i])
              [] fn = "SUM" -> SumAggregate(st, rows[i])
              [] fn = "AVG" -> AvgAggregate(st, rows[i]),
            rows, i + 1)

\* Eval of the aggregator of fn
AggregatorEval(fn, st) ==
    CASE fn \in {"COUNT", "COUNT(*)"} -> NewIntegerValue(st)
      [] fn \in {"MIN", "MAX"} -> IF st.tp = AnyType THEN NewNullValue ELSE st
      [] fn = "SUM" ->
           IF st.hasF THEN NewDoubleValue(st.SumF)
           ELSE IF st.hasI THEN NewIntegerValue(st.SumI)
           ELSE NewNullValue
      [] fn = "AVG" ->
           IF st.Counter = 0 THEN NewDoubleValue(0)
           ELSE NewDoubleValue(quo(st.Avg, st.Counter))

\* rows of the input of an aggregator
MaxInputs == 3

\* what the expression of an aggregator evaluates to on a row
Inputs ==
    <<evalMissing, evalField(NewNullValue), evalField(NewBoolValue(TRUE)),
      evalField(NewIntegerValue(1)), evalField(NewIntegerValue(MaxInt64)),
      evalField(NewIntegerValue(-2)), evalField(NewDoubleValue(3)),
      evalField(NewDoubleValue(2)), evalField(NewTextValue(<<97>>))>>

\* an operator of a stream, n being the argument of Skip and Take
StreamOp(name, n) == [op |-> name, n |-> n]

\* s.Pipe(op)
Pipe(st, name) == Append(st, StreamOp(name, 0))

\* projected expressions of a SELECT
MaxProjections == 2

\* a projected expression: the NamedExpr of an aggregate function ("agg"), of
\* the expression of the GROUP BY clause ("group") or of another expression
\* ("field"), or the wildcard, which is not a NamedExpr
Projections == {"agg", "group", "field", "wildcard"}

\* the value of an OFFSET or LIMIT expression; the value of type 0 stands for
\* the nil expression of an absent clause
SkipTakeExprs ==
    <<NewEmptyValue(AnyType), NewIntegerValue(2), NewDoubleValue(3),
      NewTextValue(<<50>>)>>

\* an OFFSET or LIMIT clause of ToStream: the number of Skip or Take, or an error
skipTake(v) ==
    IF ~IsNumber(v.tp) THEN [err |-> TRUE, n |-> 0]
    ELSE LET i == CastAsInteger(v) IN [err |-> i.err, n |-> IF i.err THEN 0 ELSE i.v.v[1]]

\* selectConfig.ToStream that adds the aggregation node only for an aggregate
\* function
ToStreamAggregateOnly(cfg) ==
    LET pes == cfg.ProjectionExprs
        s1 == IF cfg.TableName # "" THEN <<StreamOp("SeqScan", 0)>> ELSE <<>>
        s2 == IF cfg.WhereExpr THEN Pipe(s1, "Filter") ELSE s1
        s3 == IF cfg.GroupByExpr THEN Pipe(s2, "GroupBy") ELSE s2
        s4 == IF \E i \in 1..Len(pes) : pes[i] = "agg" THEN Pipe(s3, "HashAggregate") ELSE s3
        s5 == Pipe(s4, "Project")
        s6 == IF cfg.Distinct THEN Pipe(s5, "Distinct") ELSE s5
        s7 == IF cfg.OrderBy = "" THEN s6
              ELSE Pipe(s6, IF cfg.OrderBy = "DESC" THEN "SortReverse" ELSE "Sort")
        off == skipTake(cfg.OffsetExpr)
        s8 == IF cfg.OffsetExpr.tp = AnyType THEN s7 ELSE Append(s7, StreamOp("Skip", off.n))
        lim == skipTake(cfg.LimitExpr)
        s9 == IF cfg.LimitExpr.tp = AnyType THEN s8 ELSE Append(s8, StreamOp("Take", lim.n))
    IN IF \/ cfg.GroupByExpr /\ \E i \in 1..Len(pes) : pes[i] \in {"field", "wildcard"}
          \/ cfg.TableName = "" /\ \E i \in 1..Len(pes) : pes[i] = "wildcard"
          \/ cfg.OffsetExpr.tp # AnyType /\ off.err
          \/ cfg.LimitExpr.tp # AnyType /\ lim.err
       THEN [err |-> TRUE, Stream |-> <<>>]
       ELSE [err |-> FALSE, Stream |-> s9]

\* selectConfig.ToStream: the operators of the stream in the order of the pipe,
\* or an error
ToStream(cfg) ==
    LET pes == cfg.ProjectionExprs
        s1 == IF cfg.TableName # "" THEN <<StreamOp("SeqScan", 0)>> ELSE <<>>
        s2 == IF cfg.WhereExpr THEN Pipe(s1, "Filter") ELSE s1
        \* with GROUP BY: every projection is an aggregate function or the
        \* expression of the clause, and the aggregation node is added
        invalid == \E i \in 1..Len(pes) : pes[i] \in {"field", "wildcard"}
        \* without: the aggregation node is added if there is an aggregator
        s4 == IF cfg.GroupByExpr THEN Pipe(Pipe(s2, "GroupBy"), "HashAggregate")
              ELSE IF \E i \in 1..Len(pes) : pes[i] = "agg" THEN Pipe(s2, "HashAggregate")
              ELSE s2
        noTable == cfg.TableName = "" /\ \E i \in 1..Len(pes) : pes[i] = "wildcard"
        s5 == Pipe(s4, "Project")
        s6 == IF cfg.Distinct THEN Pipe(s5, "Distinct") ELSE s5
        s7 == IF cfg.OrderBy = "" THEN s6
              ELSE Pipe(s6, IF cfg.OrderBy = "DESC" THEN "SortReverse" ELSE "Sort")
        off == skipTake(cfg.OffsetExpr)
        s8 == IF cfg.OffsetExpr.tp = AnyType THEN s7 ELSE Append(s7, StreamOp("Skip", off.n))
        lim == skipTake(cfg.LimitExpr)
        s9 == IF cfg.LimitExpr.tp = AnyType THEN s8 ELSE Append(s8, StreamOp("Take", lim.n))
    IN IF \/ cfg.GroupByExpr /\ invalid
          \/ noTable
          \/ cfg.OffsetExpr.tp # AnyType /\ off.err
          \/ cfg.LimitExpr.tp # AnyType /\ lim.err
       THEN [err |-> TRUE, Stream |-> <<>>]
       ELSE [err |-> FALSE, Stream |-> s9]

ArithOps == {"+", "-", "*", "/", "%", "&", "|", "^"}

\* the operands of an operation, as a sequence
Operands ==
    <<NewNullValue, NewBoolValue(TRUE), NewBoolValue(FALSE),
      NewDoubleValue(3), NewDoubleValue(-4), NewDoubleValue(-1), NewDoubleValue(0),
      NewTextValue(<<>>), NewTextValue(<<97>>), NewTextValue(<<97, 97>>),
      NewTextValue(<<98>>),
      NewBlobValue(<<1>>), NewBlobValue(<<1, 2>>), NewBlobValue(<<2>>),
      NewValueWith(ArrayValue, <<1, 2>>)>>
        \o [i \in 1..(2 ^ IntBits) |-> NewIntegerValue(MinInt64 + i - 1)]

\* the values a cast or a test of truth is given: "true", "7", "-3", "1.5",
\* "a", "[]", "[1]", "{}", {"a":1}, "" and "YQ==" for the texts
Subjects ==
    <<NewNullValue, NewBoolValue(TRUE), NewBoolValue(FALSE),
      NewIntegerValue(0), NewIntegerValue(MaxInt64), NewIntegerValue(-2),
      NewDoubleValue(0), NewDoubleValue(3), NewDoubleValue(-3),
      NewTextValue(<<116, 114, 117, 101>>), NewTextValue(<<55>>),
      NewTextValue(<<45, 51>>), NewTextValue(<<49, 46, 53>>), NewTextValue(<<97>>),
      NewTextValue(<<91, 93>>), NewTextValue(<<91, 49, 93>>),
      NewTextValue(<<123, 125>>), NewTextValue(<<123, 34, 97, 34, 58, 49, 125>>),
      NewTextValue(<<>>), NewTextValue(<<89, 81, 61, 61>>),
      NewBlobValue(<<>>), NewBlobValue(<<97>>),
      NewValueWith(ArrayValue, <<>>), NewValueWith(ArrayValue, <<1>>),
      NewValueWith(DocumentValue, <<>>), NewValueWith(DocumentValue, <<1>>)>>

ValueTypes == {NullValue, BoolValue, IntegerValue, DoubleValue, TextValue, BlobValue,
               ArrayValue, DocumentValue}

ValueInit ==
    \/ \E i \in 1..Len(Operands), j \in 1..Len(Operands) :
          qry = [pc |-> "ready", kind |-> "binary", a |-> Operands[i], b |-> Operands[j],
                 op |-> "", res |-> NewNullValue, ka |-> <<>>, kb |-> <<>>]
    \/ \E i \in 1..Len(Subjects) :
          qry = [pc |-> "ready", kind |-> "unary", a |-> Subjects[i], op |-> "",
                 t |-> AnyType, err |-> FALSE, res |-> NewNullValue]
    \/ \E n \in 0..MaxInputs : \E is \in [1..n -> 1..Len(Inputs)] :
          qry = [pc |-> "ready", kind |-> "rows", rows |-> [i \in 1..n |-> Inputs[is[i]]],
                 op |-> "", res |-> NewNullValue]
    \/ \E n \in 1..MaxProjections : \E pes \in [1..n -> Projections],
             from \in {"", "t"}, where \in BOOLEAN, groupBy \in BOOLEAN,
             distinct \in BOOLEAN, orderBy \in {"", "ASC", "DESC"},
             o \in 1..Len(SkipTakeExprs), l \in 1..Len(SkipTakeExprs) :
          qry = [pc |-> "ready", kind |-> "select",
                 cfg |-> [TableName |-> from, Distinct |-> distinct, WhereExpr |-> where,
                          GroupByExpr |-> groupBy, OrderBy |-> orderBy,
                          OffsetExpr |-> SkipTakeExprs[o], LimitExpr |-> SkipTakeExprs[l],
                          ProjectionExprs |-> pes],
                 op |-> "", err |-> FALSE, Stream |-> <<>>]

\* Add, Sub, Mul, Div, Mod, BitwiseAnd, BitwiseOr, BitwiseXor
Calculate ==
    /\ qry.pc = "ready"
    /\ qry.kind = "binary"
    /\ \E operator \in ArithOps :
          qry' = [qry EXCEPT !.pc = "done", !.op = operator,
                             !.res = calculateValues(qry.a, qry.b, operator)]
    /\ UNCHANGED <<catVars, upd, ix>>

\* the Eval of a comparison operator, of IN and of NOT IN
EvalComparison ==
    /\ qry.pc = "ready"
    /\ qry.kind = "binary"
    /\ \E tok \in CmpToks \cup {"IN", "NOT IN"} :
          qry' = [qry EXCEPT !.pc = "done", !.op = tok,
                             !.res = CASE tok = "IN" -> inOpEval(qry.a, qry.b)
                                       [] tok = "NOT IN" -> notInOpEval(qry.a, qry.b)
                                       [] OTHER -> cmpOpEval(tok, qry.a, qry.b)]
    /\ UNCHANGED <<catVars, upd, ix>>

\* value.Append of two values of one type
AppendBoth ==
    /\ qry.pc = "ready"
    /\ qry.kind = "binary"
    /\ qry.a.tp = qry.b.tp
    /\ qry.a.tp \in {BoolValue, IntegerValue, DoubleValue, TextValue, BlobValue}
    /\ qry' = [qry EXCEPT !.pc = "done", !.op = "Append", !.ka = valueAppend(qry.a),
                          !.kb = valueAppend(qry.b)]
    /\ UNCHANGED <<catVars, upd, ix>>

CastAsRun ==
    /\ qry.pc = "ready"
    /\ qry.kind = "unary"
    /\ \E t \in ValueTypes \cup {AnyType} :
          LET r == CastAs(qry.a, t) IN
          qry' = [qry EXCEPT !.pc = "done", !.op = "CastAs", !.t = t, !.err = r.err,
                             !.res = r.v]
    /\ UNCHANGED <<catVars, upd, ix>>

IsTruthyRun ==
    /\ qry.pc = "ready"
    /\ qry.kind = "unary"
    /\ qry' = [qry EXCEPT !.pc = "done", !.op = "IsTruthy",
                          !.res = NewBoolValue(IsTruthy(qry.a))]
    /\ UNCHANGED <<catVars, upd, ix>>

\* the aggregator of a function over the rows of a group: Aggregate on each
\* row, then Eval
AggregateRun ==
    /\ qry.pc = "ready"
    /\ qry.kind = "rows"
    /\ \E fn \in AggregateFns :
          qry' = [qry EXCEPT !.pc = "done", !.op = fn,
                    !.res = AggregatorEval(fn, aggregateRows(fn, Aggregator(fn), qry.rows, 1))]
    /\ UNCHANGED <<catVars, upd, ix>>

ToStreamRun ==
    /\ qry.pc = "ready"
    /\ qry.kind = "select"
    /\ LET r == ToStream(qry.cfg) IN
       qry' = [qry EXCEPT !.pc = "done", !.op = "ToStream", !.err = r.err,
                          !.Stream = r.Stream]
    /\ UNCHANGED <<catVars, upd, ix>>

\* C21: Add, Sub and Mul of Integer(a) and Integer(b) return the Integer of the
\* mathematical result when it fits in an int64 and a Double otherwise, never an
\* Integer that wrapped around.
IntegerOverflowPromotes ==
    (/\ qry.pc = "done" /\ qry.kind = "binary" /\ qry.op \in {"+", "-", "*"}
     /\ qry.a.tp = IntegerValue /\ qry.b.tp = IntegerValue) =>
        LET r == CASE qry.op = "+" -> qry.a.v[1] + qry.b.v[1]
                   [] qry.op = "-" -> qry.a.v[1] - qry.b.v[1]
                   [] qry.op = "*" -> qry.a.v[1] * qry.b.v[1]
        IN IF r \in Int64 THEN qry.res = NewIntegerValue(r)
           ELSE qry.res.tp = DoubleValue

\* C22: an arithmetic operation (+, -, *, /, %, &, |, ^) or a comparison (=, !=,
\* <, <=, >, >=, IN, NOT IN) with at least one Null operand yields Null.
NullPropagates ==
    (/\ qry.pc = "done" /\ qry.kind = "binary"
     /\ qry.a.tp = NullValue \/ qry.b.tp = NullValue) =>
        qry.res = NewNullValue

ComparedWithNull ==
    /\ qry.pc = "done"
    /\ qry.kind = "binary"
    /\ qry.op = "<"
    /\ qry.a.tp = IntegerValue
    /\ qry.b.tp = NullValue
    /\ qry.res = NewNullValue

\* the pairs <<from, to>> of types between which a cast can succeed
CastPairs ==
    {<<IntegerValue, BoolValue>>, <<TextValue, BoolValue>>,
     <<BoolValue, IntegerValue>>, <<DoubleValue, IntegerValue>>,
     <<TextValue, IntegerValue>>,
     <<IntegerValue, DoubleValue>>, <<TextValue, DoubleValue>>,
     <<TextValue, BlobValue>>, <<TextValue, ArrayValue>>, <<TextValue, DocumentValue>>}
        \cup {<<t, TextValue>> : t \in ValueTypes}

\* C27: CastAs(v, T) returns Null when v is Null and v when v has the type T;
\* otherwise it succeeds only to Bool from Integer or Text, to Integer from
\* Bool, Double or Text, to Double from Integer or Text, to Blob, Array or
\* Document from Text and to Text from any type, it returns an error for every
\* other pair, and a cast of a non-Null v that succeeds has the type T.
CastAsRules ==
    (qry.pc = "done" /\ qry.kind = "unary" /\ qry.op = "CastAs") =>
        IF qry.a.tp = NullValue THEN ~qry.err /\ qry.res = NewNullValue
        ELSE IF qry.a.tp = qry.t THEN ~qry.err /\ qry.res = qry.a
        ELSE /\ <<qry.a.tp, qry.t>> \notin CastPairs => qry.err
             /\ ~qry.err => qry.res.tp = qry.t

CastOfTextSucceeded ==
    /\ qry.pc = "done"
    /\ qry.kind = "unary"
    /\ qry.op = "CastAs"
    /\ qry.a = NewTextValue(<<49, 46, 53>>)
    /\ qry.t = IntegerValue
    /\ ~qry.err
    /\ qry.res = NewIntegerValue(1)

\* C28: IsTruthy(v) is false exactly when v is Null or the zero of its type:
\* Integer 0, Double 0.0, Bool false, the empty Text, a Blob of length zero, an
\* Array with no element, a Document with no field.
TruthyUnlessZero ==
    (qry.pc = "done" /\ qry.kind = "unary" /\ qry.op = "IsTruthy") =>
        LET zero == CASE qry.a.tp = NullValue -> TRUE
                      [] qry.a.tp \in {BoolValue, IntegerValue, DoubleValue} ->
                           qry.a.v[1] = 0
                      [] OTHER -> Len(qry.a.v) = 0
        IN qry.res = NewBoolValue(~zero)

NonNull(rows) ==
    LET kept == SelectSeq(rows, LAMBDA in : in.v.tp # NullValue) IN
    [i \in 1..Len(kept) |-> kept[i].v]
Numbers(rows) == SelectSeq(NonNull(rows), LAMBDA v : IsNumber(v.tp))

\* a is below b: by the value inside one type or among numbers, by the tag
\* otherwise
Below(a, b) ==
    IF a.tp = b.tp \/ (IsNumber(a.tp) /\ IsNumber(b.tp)) THEN valueCompare(a, b) < 0
    ELSE a.tp < b.tp

\* C24: MIN (MAX) returns the least (greatest) non-Null input under the order
\* that compares the tag first, Integer and Double being one family compared
\* numerically, and the value second; Null and missing inputs are ignored, and
\* without a non-Null input the result is Null.
MinMaxByTagThenValue ==
    (qry.pc = "done" /\ qry.kind = "rows" /\ qry.op \in {"MIN", "MAX"}) =>
        LET vs == NonNull(qry.rows) IN
        IF Len(vs) = 0 THEN qry.res = NewNullValue
        ELSE /\ \E i \in 1..Len(vs) : vs[i] = qry.res
             /\ \A i \in 1..Len(vs) :
                   IF qry.op = "MIN" THEN ~Below(vs[i], qry.res)
                   ELSE ~Below(qry.res, vs[i])

MinOfIntegerAndDouble ==
    /\ qry.pc = "done"
    /\ qry.kind = "rows"
    /\ qry.op = "MIN"
    /\ Len(qry.rows) = 3
    /\ qry.rows[1].v = NewIntegerValue(MaxInt64)
    /\ qry.rows[2].v = NewDoubleValue(3)
    /\ qry.rows[3].err = "ErrFieldNotFound"
    /\ qry.res = NewDoubleValue(3)

\* the sum of the numbers of vs from the i-th on, in halves
RECURSIVE SumFrom(_, _)
SumFrom(vs, i) ==
    IF i > Len(vs) THEN 0
    ELSE (IF vs[i].tp = IntegerValue THEN float64(vs[i].v[1]) ELSE vs[i].v[1])
            + SumFrom(vs, i + 1)

\* C25: SUM returns Null when no numeric input was seen, an Integer when every
\* numeric input is an Integer, and a Double from the first Double input on, the
\* integers summed so far being converted; AVG returns the Double quotient of
\* the sum by the count of the numeric inputs, and 0.0 when there is none; both
\* ignore the inputs that are not numbers.
SumAndAvg ==
    (qry.pc = "done" /\ qry.kind = "rows" /\ qry.op \in {"SUM", "AVG"}) =>
        LET vs == Numbers(qry.rows)
            doubles == {i \in 1..Len(vs) : vs[i].tp = DoubleValue}
            first == IF doubles = {} THEN Len(vs) + 1
                     ELSE CHOOSE i \in doubles : \A j \in doubles : i <= j
            ints == int64(SumFrom(SubSeq(vs, 1, first - 1), 1) \div 2)
        IN IF qry.op = "AVG"
           THEN qry.res = NewDoubleValue(IF Len(vs) = 0 THEN 0
                                         ELSE quo(SumFrom(vs, 1), Len(vs)))
           ELSE IF Len(vs) = 0 THEN qry.res = NewNullValue
           ELSE IF doubles = {} THEN qry.res = NewIntegerValue(ints)
           ELSE qry.res = NewDoubleValue(float64(ints) + SumFrom(vs, first))

SumTurnedDouble ==
    /\ qry.pc = "done"
    /\ qry.kind = "rows"
    /\ qry.op = "SUM"
    /\ Len(qry.rows) = 3
    /\ qry.rows[1].v = NewIntegerValue(1)
    /\ qry.rows[2].v = NewTextValue(<<97>>)
    /\ qry.rows[3].v = NewDoubleValue(3)
    /\ qry.res = NewDoubleValue(5)

\* C39: for every sequence of inputs, a result of SUM that is an Integer is the
\* mathematical sum of the Integer inputs: a running sum that leaves the range
\* of int64 does not come back as an Integer that wrapped around.
SumIsExact ==
    (qry.pc = "done" /\ qry.kind = "rows" /\ qry.op = "SUM"
                     /\ qry.res.tp = IntegerValue) =>
        qry.res.v[1] = SumFrom(Numbers(qry.rows), 1) \div 2

\* C26: COUNT(expr) is the number of rows on which expr evaluates to a non-Null
\* value, a row without the field not being counted, and COUNT(*) is the number
\* of rows.
CountOfNonNull ==
    (qry.pc = "done" /\ qry.kind = "rows" /\ qry.op \in {"COUNT", "COUNT(*)"}) =>
        qry.res = NewIntegerValue(IF qry.op = "COUNT(*)" THEN Len(qry.rows)
                                  ELSE Len(NonNull(qry.rows)))

CountSkippedMissing ==
    /\ qry.pc = "done"
    /\ qry.kind = "rows"
    /\ qry.op = "COUNT"
    /\ Len(qry.rows) = 3
    /\ qry.rows[1].err = "ErrFieldNotFound"
    /\ qry.rows[2].v = NewNullValue /\ qry.rows[2].err = ""
    /\ qry.res = NewIntegerValue(1)

\* the names of the operators of a stream, in order
OpNames(st) == [i \in 1..Len(st) |-> st[i].op]

\* the fixed order of the operators, each one kept when its clause is there;
\* aggregated tells whether the aggregation node is expected
Pipeline(cfg, aggregated) ==
    LET all == <<"SeqScan", "Filter", "GroupBy", "HashAggregate", "Project",
                 "Distinct", "Sort", "SortReverse", "Skip", "Take">>
        present(name) ==
            CASE name = "SeqScan" -> cfg.TableName # ""
              [] name = "Filter" -> cfg.WhereExpr
              [] name = "GroupBy" -> cfg.GroupByExpr
              [] name = "HashAggregate" -> aggregated
              [] name = "Project" -> TRUE
              [] name = "Distinct" -> cfg.Distinct
              [] name = "Sort" -> cfg.OrderBy = "ASC"
              [] name = "SortReverse" -> cfg.OrderBy = "DESC"
              [] name = "Skip" -> cfg.OffsetExpr.tp # AnyType
              [] name = "Take" -> cfg.LimitExpr.tp # AnyType
    IN SelectSeq(all, present)

HasAggregate(cfg) == \E i \in 1..Len(cfg.ProjectionExprs) : cfg.ProjectionExprs[i] = "agg"

\* C23 as stated: the stream of a SELECT has its operators in the order SeqScan,
\* Filter, GroupBy, HashAggregate, Project, Distinct, Sort or SortReverse, Skip,
\* Take, each one present exactly when its clause (FROM, WHERE, GROUP BY,
\* aggregate function, DISTINCT, ORDER BY, OFFSET, LIMIT) is present.
StreamFollowsClauses ==
    (qry.pc = "done" /\ qry.kind = "select" /\ ~qry.err) =>
        OpNames(qry.Stream) = Pipeline(qry.cfg, HasAggregate(qry.cfg))

\* C23 amended: the same order, where HashAggregate is present exactly when the
\* SELECT has a GROUP BY clause or an aggregate function; OFFSET is applied
\* before LIMIT and both after ORDER BY.
StreamFollowsClausesOrGroupBy ==
    (qry.pc = "done" /\ qry.kind = "select" /\ ~qry.err) =>
        OpNames(qry.Stream) =
            Pipeline(qry.cfg, qry.cfg.GroupByExpr \/ HasAggregate(qry.cfg))

SkipBeforeTakeAfterSort ==
    /\ qry.pc = "done"
    /\ qry.kind = "select"
    /\ ~qry.err
    /\ qry.cfg.GroupByExpr
    /\ ~HasAggregate(qry.cfg)
    /\ OpNames(qry.Stream) = <<"SeqScan", "Filter", "GroupBy", "HashAggregate", "Project",
                               "Distinct", "SortReverse", "Skip", "Take">>
    /\ qry.Stream[8].n = 1
    /\ qry.Stream[9].n = 2

InitValue == catIdle /\ upd = UpdIdle /\ ix = IxIdle /\ ValueInit

NextValue ==
    Calculate \/ EvalComparison \/ AppendBoth \/ CastAsRun \/ IsTruthyRun \/ AggregateRun
        \/ ToStreamRun

SpecValue == InitValue /\ [][NextValue]_vars

----------------------------------------------------------------------------
(* The lock of the cache. Goroutines share one catalog: each runs one call *)
(* on it, and the steps of a call are the places where it takes and        *)
(* releases c.mu. qry holds the lock (w: the goroutine that holds the      *)
(* write lock, 0 for none; r: the goroutines that hold the read lock), the *)
(* goroutines and the states the cache went through. The engine            *)
(* serializes write transactions: one goroutine at a time is a writer.     *)

MaxThreads == 2
Threads == 1..MaxThreads

\* sync.RWMutex: Lock waits for the writer and for every reader, RLock for the writer
CanLock(mu) == mu.w = 0 /\ mu.r = {}
CanRLock(mu) == mu.w = 0

ThreadIdle ==
    [op |-> "", pc |-> "idle", name |-> "", ti |-> NoTable, idxs |-> <<>>, err |-> "",
     from |-> 0, hooks |-> <<>>]

\* the calls of a write transaction on the cache
ConcOps == {"AddTable", "DeleteTable", "AddIndex", "DeleteIndex", "RenameTable"}

\* the body of a call of a write transaction, between c.mu.Lock() and the deferred
\* c.mu.Unlock(); order is the order in which DeleteTable ranges over c.indexes
concCall(c, op, order) ==
    CASE op = "AddTable" -> AddTable(c, TableInfo("u", FALSE, <<>>))
      [] op = "DeleteTable" -> DeleteTable(c, "t", order)
      [] op = "AddIndex" -> AddIndex(c, IndexInfo("u", "t", <<"x">>, <<>>, FALSE))
      [] op = "DeleteIndex" -> DeleteIndex(c, "i")
      [] op = "RenameTable" -> updateTable(c, "t", [kind |-> "RenameTable", newName |-> "u"])

\* the goroutines that are between the lock and the unlock of a read of the maps,
\* or in the loops of clone, which take no lock
Reading(t) == qry.th[t].pc \in {"GetTable", "GetTableIndexes", "clone"}
Writing(t) == qry.th[t].pc \in {"write", "hook"}

\* no other goroutine is in a write transaction
WriterFree(t) ==
    \A u \in Threads \ {t} : qry.th[u].op \notin ConcOps \/ qry.th[u].pc = "done"

ConcInit ==
    /\ \E st \in Stored : cache = Load(st.tables, st.indexes, st.sequences)
    /\ persisted = EmptyMap
    /\ enginePre = EmptyMap
    /\ pre = Snapshot(newCatalogCache)
    /\ txState = "None"
    /\ hooks = <<>>
    /\ hookPos = 0
    /\ hookLog = <<>>
    /\ registered = 0
    /\ ended = ""
    /\ last = NoCall
    /\ nops = 0
    /\ qry = [pc |-> "conc", kind |-> "conc", w |-> 0, r |-> {},
              th |-> [t \in Threads |-> ThreadIdle], hist |-> <<cache>>]

\* Catalog.GetTable, its first call: c.cache.GetTable takes the read lock
CacheGetTableRLock ==
    \E t \in Threads, n \in {"t", "u"} :
        /\ qry.kind = "conc"
        /\ qry.th[t].pc = "idle"
        /\ CanRLock(qry)
        /\ qry' = [qry EXCEPT !.r = @ \cup {t},
                              !.th[t] = [@ EXCEPT !.op = "GetTable", !.pc = "GetTable",
                                                  !.name = n, !.from = Len(qry.hist)]]
        /\ UNCHANGED <<catVars, upd, ix>>

\* c.cache.GetTable reads c.tables and its deferred RUnlock runs; GetTable of the
\* catalog returns on its error, else goes on to tx.Tx.GetStore
CacheGetTableRUnlock ==
    \E t \in Threads :
        /\ qry.kind = "conc"
        /\ qry.th[t].pc = "GetTable"
        /\ LET res == GetTable(cache, qry.th[t].name) IN
           qry' = [qry EXCEPT !.r = @ \ {t},
                              !.th[t] = [@ EXCEPT !.ti = res.ti, !.err = res.err,
                                                  !.pc = IF res.err # "" THEN "done"
                                                         ELSE "GetStore"]]
        /\ UNCHANGED <<catVars, upd, ix>>

\* c.cache.GetTableIndexes takes the read lock again
GetTableIndexesRLock ==
    \E t \in Threads :
        /\ qry.kind = "conc"
        /\ qry.th[t].pc = "GetStore"
        /\ CanRLock(qry)
        /\ qry' = [qry EXCEPT !.r = @ \cup {t}, !.th[t].pc = "GetTableIndexes"]
        /\ UNCHANGED <<catVars, upd, ix>>

\* it reads c.indexesPerTables, its RUnlock runs and GetTable returns the Table
GetTableIndexesRUnlock ==
    \E t \in Threads :
        /\ qry.kind = "conc"
        /\ qry.th[t].pc = "GetTableIndexes"
        /\ qry' = [qry EXCEPT !.r = @ \ {t},
                              !.th[t] = [@ EXCEPT !.idxs = GetTableIndexes(cache, qry.th[t].name),
                                                  !.pc = "done"]]
        /\ UNCHANGED <<catVars, upd, ix>>

\* a call of the write transaction takes the write lock
MutateLock ==
    \E t \in Threads, op \in ConcOps :
        /\ qry.kind = "conc"
        /\ qry.th[t].pc = "idle"
        /\ WriterFree(t)
        /\ CanLock(qry)
        /\ qry' = [qry EXCEPT !.w = t, !.th[t] = [@ EXCEPT !.op = op, !.pc = "write"]]
        /\ UNCHANGED <<catVars, upd, ix>>

\* it changes the maps, registers its hook, and its deferred Unlock runs
MutateUnlock ==
    \E t \in Threads :
        /\ qry.kind = "conc"
        /\ qry.th[t].pc = "write"
        /\ \E order \in Orders(IndexesOfTable(cache, "t")) :
              LET res == concCall(cache, qry.th[t].op, order) IN
              /\ cache' = res.c
              /\ qry' = [qry EXCEPT !.w = 0,
                                    !.hist = IF res.c # cache THEN Append(@, res.c) ELSE @,
                                    !.th[t] = [@ EXCEPT !.err = res.err, !.hooks = res.hooks,
                                                        !.pc = IF res.err # "" THEN "done"
                                                               ELSE "called"]]
        /\ UNCHANGED <<persisted, txState, hooks, hookPos, hookLog, registered, pre,
                       enginePre, ended, last, nops, upd, ix>>

\* the transaction commits: its hooks are dropped
ConcCommit ==
    \E t \in Threads :
        /\ qry.kind = "conc"
        /\ qry.th[t].pc = "called"
        /\ qry' = [qry EXCEPT !.th[t] = [@ EXCEPT !.hooks = <<>>, !.pc = "done"]]
        /\ UNCHANGED <<catVars, upd, ix>>

\* the transaction rolls back: the hook takes the write lock
HookLock ==
    \E t \in Threads :
        /\ qry.kind = "conc"
        /\ qry.th[t].pc = "called"
        /\ CanLock(qry)
        /\ qry' = [qry EXCEPT !.w = t, !.th[t].pc = "hook"]
        /\ UNCHANGED <<catVars, upd, ix>>

\* the hook restores the maps and its deferred Unlock runs
HookUnlock ==
    \E t \in Threads :
        /\ qry.kind = "conc"
        /\ qry.th[t].pc = "hook"
        /\ cache' = runHook(cache, qry.th[t].hooks[1])
        /\ qry' = [qry EXCEPT !.w = 0,
                              !.hist = IF cache' # cache THEN Append(@, cache') ELSE @,
                              !.th[t] = [@ EXCEPT !.hooks = <<>>, !.pc = "done"]]
        /\ UNCHANGED <<persisted, txState, hooks, hookPos, hookLog, registered, pre,
                       enginePre, ended, last, nops, upd, ix>>

\* Catalog.Clone calls c.cache.clone(), which ranges over the four maps
CloneStart ==
    \E t \in Threads :
        /\ qry.kind = "conc"
        /\ qry.th[t].pc = "idle"
        /\ qry' = [qry EXCEPT !.th[t] = [@ EXCEPT !.op = "Clone", !.pc = "clone",
                                                  !.from = Len(qry.hist)]]
        /\ UNCHANGED <<catVars, upd, ix>>

\* clone returns. A write of a map while clone ranged over it is a data race: the
\* runtime may end the program ("concurrent map iteration and map write") or not
CloneEnd ==
    \E t \in Threads :
        /\ qry.kind = "conc"
        /\ qry.th[t].pc = "clone"
        /\ \E e \in IF Len(qry.hist) > qry.th[t].from \/ \E u \in Threads : Writing(u)
                    THEN {"", "fatal"} ELSE {""} :
              qry' = [qry EXCEPT !.th[t] = [@ EXCEPT !.err = e, !.pc = "done"]]
        /\ UNCHANGED <<catVars, upd, ix>>

InitConc == upd = UpdIdle /\ ix = IxIdle /\ ConcInit

NextConc ==
    CacheGetTableRLock \/ CacheGetTableRUnlock \/ GetTableIndexesRLock
        \/ GetTableIndexesRUnlock \/ MutateLock \/ MutateUnlock \/ ConcCommit
        \/ HookLock \/ HookUnlock \/ CloneStart \/ CloneEnd

SpecConc == InitConc /\ [][NextConc]_vars

\* C31: every read or write of the maps of the cache happens while the lock is
\* held, reads under the read lock at least, mutations and rollback hooks under
\* the write lock; no operation, Clone included, accesses the maps without the
\* lock, so no read runs concurrently with a write.
MapsAccessedUnderLock ==
    qry.kind = "conc" =>
        \A t \in Threads :
            /\ Reading(t) => (t \in qry.r \/ qry.w = t)
            /\ Writing(t) => qry.w = t
            /\ \A u \in Threads : ~(Reading(t) /\ Writing(u))

\* C36: the Table that Catalog.GetTable returns has the TableInfo and the list of
\* indexes of one state of the cache, one of those the cache was in during the
\* call, also when another transaction renames or drops the table, or creates or
\* drops an index on it, meanwhile.
GetTableFromOneState ==
    qry.kind = "conc" =>
        \A t \in Threads :
            (qry.th[t].op = "GetTable" /\ qry.th[t].pc = "done" /\ qry.th[t].err = "") =>
                \E k \in qry.th[t].from..Len(qry.hist) :
                    /\ qry.th[t].name \in DOMAIN qry.hist[k].tables
                    /\ qry.hist[k].tables[qry.th[t].name] = qry.th[t].ti
                    /\ GetTableIndexes(qry.hist[k], qry.th[t].name) = qry.th[t].idxs

====
